---- MODULE Spec2Model ----
(***************************************************************************)
(* Night logger: sampler (night_logger_github.py and                       *)
(* night_logger_github_fixed_v3.py), violation extractor and the Beeminder *)
(* ledger reconciler (sync_violations.py).                                 *)
(*                                                                         *)
(* Calendar days are day numbers, wall-clock instants are whole hours      *)
(* (sampler, extractor) or unix seconds (reconciler) counted from day 0.   *)
(***************************************************************************)
EXTENDS Integers, Sequences, FiniteSets, TLC

VARIABLES
    \* ---- ledger reconciler (sync_violations.py) ----
    ledger,      \* the Beeminder goal's datapoints: set of [id, timestamp, value, comment]
    nextId,      \* id the service gives to the next created datapoint
    authority,   \* violations.json "violations": set of [date, timestamp, value, comment]
    tz,          \* UTC offset (hours) of the machine that runs the reconciler
    runs,        \* completed selective_sync_datapoints runs
    calls,       \* create/delete calls issued by the last run, in order
    allOK,       \* every create/delete call of every run so far succeeded
    \* ---- sampler (night_logger_github.py, night_logger_github_fixed_v3.py) ----
    ver,         \* the sampler program installed: "orig" or "v3"
    offset,      \* UTC offset (hours) of the sampler's local clock
    creds,       \* GITHUB_TOKEN and GITHUB_REPO are set
    clock,       \* local wall-clock time, seconds
    logs,        \* table logs: sequence of [logged_at, is_night]
    posts,       \* table posts: function ymd -> posted_at_utc
    pc,          \* per sampler process: where it is in main()
    cur,         \* per sampler process: the day key ymd of the sync in flight
    exitWhy,     \* per sampler process: how the last run of main() ended
    upCalls,     \* per process run and day: upload_violations_to_branch calls
    trigCalls,   \* per process run and day: trigger_workflow calls
    procDone,    \* per process run: days whose upload and trigger both succeeded
    totalDone,   \* per day: successful upload-and-trigger sequences, all processes
    remote,      \* violations.json on the remote branch: <<>> or <<document>>
    pushes,      \* successful uploads: <<day key, dates of the document's violations>>
    bee,         \* the Beeminder goal as the sampler's machine reaches it:
                 \* [creds, ledger, calls]
    \* ---- extractor called on its own (tests, extract_violations.py) ----
    fn,          \* which extract_violations ran last: "none", "orig" or "v3"
    altPosts,    \* table posts of a second store that holds the same logs
    result,      \* what the extractor returned for (logs, posts)
    altResult,   \* what it returned for (logs, altPosts)
    \* ---- BeeminderAPI.get_goal_datapoints, one list call at a time ----
    pg,          \* [variant, n, cap, page, got, calls, done, failed]
    \* ---- table posts under mark_posted_today / already_posted_today ----
    \* ---- one pass of a sampler's main loop on a given local time ----
    cls,         \* [variant, now, done, is_night, ymd]
    \* ---- orchestrator (sync_nightlogger.py) ----
    orch,        \* [remote, hsot, sot, ledger, nextId, stage, has_hsot, exit,
                 \*  ops, calls, ok, fault, ran, runs, pull, sot0, hadDup]
    \* ---- GitHubAPI.upload_violations_to_branch, one request per step ----
    gh,          \* [branch, doc, sha, step, want, read, put, ret, last, calls]
    guard,       \* [rows, error, marked, first, now, asked, answer, wasMarked]
    \* ---- extract_violations on a path that may not exist ----
    miss,        \* [variant, exists, done, doc]
    \* ---- main() of sync_violations.py: what the last run saw and planned ----
    rec,         \* [creds, flag, path, exit, held, listed, pageFailed, dups, kept, by,
                 \*  plan]
    \* ---- two selective_sync_datapoints runs, one API call per step ----
    cc,          \* [proc, started, healed]; proc[p] = [pc, dups, by, dels, upds,
                 \* creates, pending]
    wal,         \* [variant, exists, open, schema, main, live, copy, direct]
    txn          \* [step, conn, snapshot, before, todo, at]

syncVars == <<ledger, nextId, authority, tz, runs, calls, allOK>>

logVars == <<ver, offset, creds, clock, logs, posts, pc, cur, exitWhy,
             upCalls, trigCalls, procDone, totalDone, remote, pushes, bee>>

exVars == <<fn, altPosts, result, altResult>>

auxVars == <<pg, guard, cls, orch, gh, miss, rec, cc, wal, txn>>

vars == <<ledger, nextId, authority, tz, runs, calls, allOK,
          ver, offset, creds, clock, logs, posts, pc, cur, exitWhy,
          upCalls, trigCalls, procDone, totalDone, remote, pushes, bee,
          fn, altPosts, result, altResult, pg, guard, cls, orch, gh, miss, rec, cc, wal, txn>>

\* ------------------------------------------------------------------------
\* Bounds
\* ------------------------------------------------------------------------
MaxLedger == 2          \* entries in the initial ledger
MaxRuns == 2            \* reconciler runs in one behaviour
MaxLogs == 3            \* rows of table logs
MaxMirrorLogs == 2      \* rows of table logs in a snapshot or a mirror
MaxPushCalls == 3       \* pushes to the remote branch in one behaviour
MaxMarks == 5           \* mark_posted_today calls in one behaviour
MaxEntries == 5         \* entries of a ledger listed page by page
PerPage == 2            \* per_page of a list call (the programs ask for 300)
SyncPerPage == 1        \* per_page of the list calls of a whole reconciler run

\* ------------------------------------------------------------------------
\* Calendar arithmetic
\* ------------------------------------------------------------------------
HoursPerDay == 12 + 12
SecondsPerHour == 60 * 60
SecondsPerDay == HoursPerDay * SecondsPerHour
MillisPerSecond == 10 * 100

\* unix seconds of day d, hour h, second s (UTC)
At(d, h, s) == d * SecondsPerDay + h * SecondsPerHour + s

\* datetime.fromtimestamp(ts).strftime('%Y-%m-%d') on a machine at UTC+tz
LocalDateOf(ts) == (ts + tz * SecondsPerHour) \div SecondsPerDay

\* int(datetime.fromisoformat(iso).timestamp()): the ISO timestamp carries
\* milliseconds, int() drops them
SotUnix(isoMillis) == isoMillis \div MillisPerSecond

\* the SQL CASE of extract_violations on a UTC instant given in unix seconds
AttributedDateOfSeconds(ts) ==
    IF (ts % SecondsPerDay) \div SecondsPerHour <= 3
    THEN ts \div SecondsPerDay - 1
    ELSE ts \div SecondsPerDay

Abs(x) == IF x < 0 THEN 0 - x ELSE x

EmptyMap == [d \in {} |-> 0]

\* ------------------------------------------------------------------------
\* Sample store and violation extractor: night_logger_github.py,
\* night_logger_github_fixed_v3.py
\* ------------------------------------------------------------------------
Days == {1, 2}
Procs == {1, 2}

HourOf(t) == (t % SecondsPerDay) \div SecondsPerHour

\* a window that ends an hour later
is_between_23_and_459_local(now) == HourOf(now) >= 23 \/ HourOf(now) <= 4

is_between_23_and_359_local(now) == HourOf(now) >= 23 \/ HourOf(now) <= 3

\* now.strftime("%Y-%m-%d")
local_ymd(now) == now \div SecondsPerDay

\* main(): the day key of a night sample (orig 326-329, v3 387-390)
DayKey(now) ==
    IF HourOf(now) <= 3 THEN local_ymd(now - SecondsPerDay) ELSE local_ymd(now)

\* logged_at DEFAULT strftime('%Y-%m-%dT%H:%M:%fZ','now'): the UTC instant of
\* the insert, milliseconds
LoggedAt(now) == (now - offset * SecondsPerHour) * MillisPerSecond

\* a guard that never finds the day
already_posted_never(P, ymd) == FALSE

already_posted_today(P, ymd) == ymd \in DOMAIN P

\* INSERT OR IGNORE INTO posts
mark_posted_today(P, ymd, utcnow) ==
    IF ymd \in DOMAIN P THEN P ELSE P @@ (ymd :> utcnow)

\* f"Night logger violation ({count} detections)"
Comment(count) == [text |-> "Night logger violation (n detections)", n |-> count]
ForeignComment == [text |-> "Unauthorized", n |-> 0]

\* the CASE with the boundary hour left on its own date
violation_date_before_3(logged_at) ==
    IF HourOf(logged_at \div MillisPerSecond) < 3
    THEN (logged_at \div MillisPerSecond) \div SecondsPerDay - 1
    ELSE (logged_at \div MillisPerSecond) \div SecondsPerDay

\* CASE WHEN CAST(strftime('%H', logged_at) AS INTEGER) <= 3
\*      THEN DATE(logged_at, '-1 day') ELSE DATE(logged_at) END
violation_date(logged_at) == AttributedDateOfSeconds(logged_at \div MillisPerSecond)

Min(a, b) == IF a <= b THEN a ELSE b

\* WHERE is_night = 1 GROUP BY violation_date, with MIN(logged_at), COUNT(*)
RECURSIVE GroupRows(_, _)
GroupRows(L, groups) ==
    IF L = <<>> THEN groups
    ELSE LET row == Head(L)
             d == violation_date(row.logged_at)
         IN IF row.is_night # 1 THEN GroupRows(Tail(L), groups)
            ELSE IF d \in DOMAIN groups
            THEN GroupRows(Tail(L),
                     [groups EXCEPT ![d] = [first |-> Min(@.first, row.logged_at),
                                            count |-> @.count + 1]])
            ELSE GroupRows(Tail(L), groups @@ (d :> [first |-> row.logged_at, count |-> 1]))

ViolationRow(d, g) ==
    [date |-> d, timestamp |-> g.first, value |-> 1,
     comment |-> Comment(g.count), daystamp |-> d]

\* ORDER BY violation_date DESC
RECURSIVE DescendingRows(_)
DescendingRows(groups) ==
    IF DOMAIN groups = {} THEN <<>>
    ELSE LET d == CHOOSE x \in DOMAIN groups : \A y \in DOMAIN groups : x >= y
         IN <<ViolationRow(d, groups[d])>>
            \o DescendingRows([e \in DOMAIN groups \ {d} |-> groups[e]])

\* [v for v in violations if v["date"] not in posted_dates]
RECURSIVE Unposted(_, _)
Unposted(violations, posted_dates) ==
    IF violations = <<>> THEN <<>>
    ELSE (IF Head(violations).date \in posted_dates THEN <<>> ELSE <<Head(violations)>>)
         \o Unposted(Tail(violations), posted_dates)

\* night_logger_github.extract_violations on an existing store (L = logs,
\* P = posts); last_updated, the time of the call, is left out
extract_violations(L, P) ==
    LET violations == DescendingRows(GroupRows(L, EmptyMap))
        posted_dates == DOMAIN P
    IN [violations |-> violations,
        posted_dates |-> posted_dates,
        total_violations |-> Len(violations),
        unposted_violations |-> Unposted(violations, posted_dates)]

\* night_logger_github_fixed_v3.extract_violations: one query per posted date
RECURSIVE PostedRows(_, _)
PostedRows(L, dates) ==
    IF dates = {} THEN <<>>
    ELSE LET d == CHOOSE x \in dates : \A y \in dates : x <= y
             rows == {i \in DOMAIN L : L[i].is_night = 1 /\ violation_date(L[i].logged_at) = d}
             first == CHOOSE i \in rows : \A j \in rows : L[i].logged_at <= L[j].logged_at
         IN (IF rows = {} THEN <<>>
             ELSE <<ViolationRow(d, [first |-> L[first].logged_at,
                                     count |-> Cardinality(rows)])>>)
            \o PostedRows(L, dates \ {d})

extract_violations_v3(L, P) ==
    LET violations == PostedRows(L, DOMAIN P)
    IN [violations |-> violations,
        posted_dates |-> DOMAIN P,
        total_violations |-> Len(violations),
        unposted_violations |-> <<>>]

\* ------------------------------------------------------------------------
\* Sampler: main() of night_logger_github.py ("orig") and of
\* night_logger_github_fixed_v3.py ("v3")
\* ------------------------------------------------------------------------
Versions == {"orig", "v3"}
LocalOffsets == {0 - 5, 0, 2}
TickTimes == {At(1, 22, 0), At(1, 23, 0), At(2, 1, 0), At(2, 4, 0), At(2, 23, 0)}
FirstTick == At(1, 22, 0)

\* the document upload_violations_to_branch generates
Document(L, P) ==
    IF ver = "v3" THEN extract_violations_v3(L, P) ELSE extract_violations(L, P)

DatesOf(document) == {document.violations[i].date : i \in DOMAIN document.violations}

\* the exit status of each way main() ends. After the main connection is
\* closed for a sync (orig 351, v3 412) the finally block's cursor.close()
\* raises sqlite3.ProgrammingError, which replaces the SystemExit or follows
\* the handled KeyboardInterrupt: the interpreter ends with status 1.
\* SIGKILL runs no handler (status 128 + 9).
ExitCode(why) ==
    CASE why = "nocreds" -> 2
      [] why = "failed" -> 1
      [] why = "posted" -> 1
      [] why = "interrupt_closed" -> 1
      [] why = "killed" -> 128 + 9
      [] OTHER -> 0

NoCalls == [d \in Days |-> 0]

\* the goal's datapoints as the sampler's machine may find them: none, or two
\* on day 1 and one on day 2
BeeLedgers ==
    {{}, {[id |-> 1, daystamp |-> 1], [id |-> 2, daystamp |-> 1], [id |-> 3, daystamp |-> 2]}}

\* how the service answers the deletes of one clean-up: with 200, with
\* another status, or not at all (the request raises)
DeleteOutcomes == {"ok", "refused", "raised"}

\* v3 119: sorted(dps, key=lambda x: x['id'], reverse=True)
RECURSIVE DescendingIds(_)
DescendingIds(S) ==
    IF S = {} THEN <<>>
    ELSE LET top == CHOOSE x \in S : \A y \in S : x >= y
         IN <<top>> \o DescendingIds(S \ {top})

\* v3 110-121: for each daystamp of the listing with more than one
\* datapoint, all but the one with the largest id
RECURSIVE DuplicatesToRemove(_, _)
DuplicatesToRemove(L, daystamps) ==
    IF daystamps = {} THEN <<>>
    ELSE LET d == CHOOSE x \in daystamps : \A y \in daystamps : x <= y
             ids == {e.id : e \in {x \in L : x.daystamp = d}}
         IN (IF Cardinality(ids) > 1 THEN Tail(DescendingIds(ids)) ELSE <<>>)
            \o DuplicatesToRemove(L, daystamps \ {d})

\* v3 98-148 on b = [creds, ledger, calls]: one list request, then one delete
\* request per duplicate; a request that raises ends the clean-up
clean_beeminder_duplicates(b, listOK, outcome) ==
    LET remove == DuplicatesToRemove(b.ledger, {e.daystamp : e \in b.ledger})
        issued == IF outcome = "raised" /\ remove # <<>> THEN <<remove[1]>> ELSE remove
        gone == IF outcome = "ok" THEN {remove[i] : i \in DOMAIN remove} ELSE {}
    IN IF ~listOK THEN b
       ELSE [b EXCEPT
                !.ledger = {e \in @ : e.id \notin gone},
                !.calls = @ \o [i \in DOMAIN issued |-> [op |-> "delete", key |-> issued[i]]]]

\* no Beeminder credentials on the sampler's machine
BeeIdle == bee = [creds |-> FALSE, ledger |-> {}, calls |-> <<>>]

LogInit ==
    /\ ver \in Versions
    /\ offset \in LocalOffsets
    /\ creds \in BOOLEAN
    /\ clock = FirstTick
    /\ logs = <<>>
    /\ posts = EmptyMap
    /\ pc = [p \in Procs |-> "stopped"]
    /\ cur = [p \in Procs |-> 0]
    /\ exitWhy = [p \in Procs |-> "none"]
    /\ upCalls = [p \in Procs |-> NoCalls]
    /\ trigCalls = [p \in Procs |-> NoCalls]
    /\ procDone = [p \in Procs |-> {}]
    /\ totalDone = NoCalls
    /\ remote = <<>>
    /\ pushes = {}
    /\ bee \in [creds : BOOLEAN, ledger : BeeLedgers, calls : {<<>>}]

SyncIdle ==
    /\ ledger = {}
    /\ nextId = 1
    /\ authority = {}
    /\ tz = 0
    /\ runs = 0
    /\ calls = <<>>
    /\ allOK = TRUE

LogIdle ==
    /\ ver = "orig"
    /\ offset = 0
    /\ creds = TRUE
    /\ clock = FirstTick
    /\ logs = <<>>
    /\ posts = EmptyMap
    /\ pc = [p \in Procs |-> "stopped"]
    /\ cur = [p \in Procs |-> 0]
    /\ exitWhy = [p \in Procs |-> "none"]
    /\ upCalls = [p \in Procs |-> NoCalls]
    /\ trigCalls = [p \in Procs |-> NoCalls]
    /\ procDone = [p \in Procs |-> {}]
    /\ totalDone = NoCalls
    /\ remote = <<>>
    /\ pushes = {}
    /\ BeeIdle

\* a write that replaces the newest sample where there is one
OverwriteSample(L, now, value) ==
    LET row == [logged_at |-> LoggedAt(now), is_night |-> value]
    IN IF L = <<>> THEN <<row>> ELSE [L EXCEPT ![Len(L)] = row]

\* INSERT INTO logs (is_night) VALUES (?), committed: one new row, logged_at
\* by the column's default
InsertSample(L, now, value) ==
    Append(L, [logged_at |-> LoggedAt(now), is_night |-> value])

Exit(p, why) ==
    /\ pc' = [pc EXCEPT ![p] = "exited"]
    /\ exitWhy' = [exitWhy EXCEPT ![p] = why]

\* the process is started (by systemd, a timer or by hand): open_db
Start(p) ==
    /\ pc[p] \in {"stopped", "exited"}
    /\ pc' = [pc EXCEPT ![p] = "loop"]
    /\ exitWhy' = [exitWhy EXCEPT ![p] = "none"]
    /\ upCalls' = [upCalls EXCEPT ![p] = NoCalls]
    /\ trigCalls' = [trigCalls EXCEPT ![p] = NoCalls]
    /\ procDone' = [procDone EXCEPT ![p] = {}]
    /\ UNCHANGED <<ver, offset, creds, clock, logs, posts, cur, totalDone, remote, pushes, bee>>

\* one loop iteration up to the sync: insert the sample, then the
\* once-per-night guard and the credentials check
Tick(p) ==
    /\ pc[p] = "loop"
    /\ Len(logs) < MaxLogs
    /\ LET now == clock
           value == IF is_between_23_and_359_local(now) THEN 1 ELSE 0
           ymd == DayKey(now)
       IN /\ logs' = InsertSample(logs, now, value)
          /\ cur' = IF value = 1 THEN [cur EXCEPT ![p] = ymd] ELSE cur
          /\ IF value = 0
             THEN UNCHANGED <<pc, exitWhy>>
             ELSE IF already_posted_today(posts, ymd)
             THEN IF ver = "orig"
                  THEN Exit(p, "already")
                  ELSE UNCHANGED <<pc, exitWhy>>
             ELSE IF ~creds
             THEN Exit(p, "nocreds")
             ELSE /\ pc' = [pc EXCEPT ![p] = IF ver = "v3" THEN "marking" ELSE "upload"]
                  /\ UNCHANGED exitWhy
    /\ UNCHANGED <<ver, offset, creds, clock, posts, upCalls, trigCalls, procDone,
                   totalDone, remote, pushes, bee>>

\* v3 414-417: mark the day posted before the upload
MarkFirst(p) ==
    /\ pc[p] = "marking"
    /\ posts' = mark_posted_today(posts, cur[p], LoggedAt(clock))
    /\ pc' = [pc EXCEPT ![p] = "upload"]
    /\ UNCHANGED <<ver, offset, creds, clock, logs, cur, exitWhy, upCalls, trigCalls,
                   procDone, totalDone, remote, pushes, bee>>

\* upload_violations_to_branch: (v3 261-271: with the Beeminder variables
\* set, clean the goal's duplicates first, whatever comes of it,) extract,
\* then overwrite violations.json
UploadCall(p, ok) ==
    /\ pc[p] = "upload"
    /\ \E listOK \in BOOLEAN, outcome \in DeleteOutcomes :
          bee' = IF ver = "v3" /\ bee.creds
                 THEN clean_beeminder_duplicates(bee, listOK, outcome)
                 ELSE bee
    /\ upCalls' = [upCalls EXCEPT ![p][cur[p]] = @ + 1]
    /\ IF ok
       THEN /\ remote' = <<Document(logs, posts)>>
            /\ pushes' = pushes \cup {<<cur[p], DatesOf(Document(logs, posts))>>}
            /\ pc' = [pc EXCEPT ![p] = "trigger"]
            /\ UNCHANGED exitWhy
       ELSE /\ Exit(p, "failed")
            /\ UNCHANGED <<remote, pushes>>
    /\ UNCHANGED <<ver, offset, creds, clock, logs, posts, cur, trigCalls, procDone,
                   totalDone>>

Upload(p) == \E ok \in BOOLEAN : UploadCall(p, ok)

\* trigger_workflow; v3 then reopens the store and goes on sampling
TriggerCall(p, ok) ==
    /\ pc[p] = "trigger"
    /\ trigCalls' = [trigCalls EXCEPT ![p][cur[p]] = @ + 1]
    /\ IF ok
       THEN /\ pc' = [pc EXCEPT ![p] = IF ver = "v3" THEN "loop" ELSE "mark"]
            /\ procDone' = [procDone EXCEPT ![p] = @ \cup {cur[p]}]
            /\ totalDone' = [totalDone EXCEPT ![cur[p]] = @ + 1]
            /\ UNCHANGED exitWhy
       ELSE /\ Exit(p, "failed")
            /\ UNCHANGED <<procDone, totalDone>>
    /\ UNCHANGED <<ver, offset, creds, clock, logs, posts, cur, upCalls, remote, pushes, bee>>

Trigger(p) == \E ok \in BOOLEAN : TriggerCall(p, ok)

\* orig 371-379: mark the day posted after the trigger, then sys.exit(0)
MarkAfter(p) ==
    /\ pc[p] = "mark"
    /\ posts' = mark_posted_today(posts, cur[p], LoggedAt(clock))
    /\ Exit(p, "posted")
    /\ UNCHANGED <<ver, offset, creds, clock, logs, cur, upCalls, trigCalls, procDone,
                   totalDone, remote, pushes, bee>>

\* where main() runs with its main connection closed
ClosedPcs == {"upload", "trigger", "mark"}

\* KeyboardInterrupt anywhere in main(): the except clause, then the finally
\* block on the main connection, open or already closed (v3 marks the day on
\* a second connection, lines 415-417, after line 412 has closed the main
\* one: an interrupt on the way there finds it open or closed)
Interrupt(p) ==
    /\ pc[p] \in {"loop", "marking", "upload", "trigger", "mark"}
    /\ \E closed \in IF pc[p] = "marking" THEN BOOLEAN ELSE {pc[p] \in ClosedPcs} :
          Exit(p, IF closed THEN "interrupt_closed" ELSE "interrupt")
    /\ UNCHANGED <<ver, offset, creds, clock, logs, posts, cur, upCalls, trigCalls,
                   procDone, totalDone, remote, pushes, bee>>

\* the process is killed or the machine loses power
Kill(p) ==
    /\ pc[p] \in {"loop", "marking", "upload", "trigger", "mark"}
    /\ Exit(p, "killed")
    /\ UNCHANGED <<ver, offset, creds, clock, logs, posts, cur, upCalls, trigCalls,
                   procDone, totalDone, remote, pushes, bee>>

\* time passes
Advance ==
    /\ \E t \in TickTimes : t > clock /\ clock' = t
    /\ UNCHANGED <<ver, offset, creds, logs, posts, pc, cur, exitWhy, upCalls, trigCalls,
                   procDone, totalDone, remote, pushes, bee>>

ExIdle ==
    /\ fn = "none"
    /\ altPosts = EmptyMap
    /\ result = <<>>
    /\ altResult = <<>>

\* what the sampler leaves alone
\* no list call in progress
PgIdle ==
    pg = [variant |-> "none", n |-> 0, cap |-> 1, page |-> 1, got |-> <<>>,
          calls |-> 0, done |-> TRUE, failed |-> FALSE]

\* table posts as open_db creates it, nothing called yet
GuardIdle ==
    guard = [rows |-> {}, error |-> FALSE, marked |-> {}, first |-> EmptyMap,
             now |-> 1, asked |-> 0, answer |-> FALSE, wasMarked |-> FALSE]

\* no local time read yet
ClsIdle ==
    cls = [variant |-> "none",
           now |-> [date |-> 0, hour |-> 0, minute |-> 0, second |-> 0, microsecond |-> 0],
           done |-> FALSE, is_night |-> FALSE, ymd |-> 0]

NoOps == [inserts |-> 0, deletes |-> 0]

\* the orchestrator not started: no snapshot, no mirror, an empty ledger
OrchIdle ==
    orch = [remote |-> <<>>, hsot |-> <<>>, sot |-> <<>>, ledger |-> {}, nextId |-> 1,
            stage |-> "idle", has_hsot |-> FALSE, exit |-> 0, ops |-> NoOps,
            calls |-> <<>>, ok |-> TRUE, fault |-> "none", ran |-> <<>>, runs |-> 0,
            pull |-> "none", sot0 |-> <<>>, hadDup |-> FALSE]

NoRead == [status |-> 0, sha |-> 0, content |-> {}]

NoPut == [sent |-> FALSE, content |-> {}, sha |-> 0, read |-> NoRead]

\* the repository before any push: no branch violations-data, no document
GhIdle ==
    gh = [branch |-> FALSE, doc |-> <<>>, sha |-> 0, step |-> "idle", want |-> {},
          read |-> NoRead, put |-> NoPut, ret |-> "none",
          last |-> <<>>, calls |-> 0]

\* no extractor called on a path
MissIdle == miss = [variant |-> "none", exists |-> TRUE, done |-> FALSE, doc |-> <<>>]

\* main() of sync_violations.py not run
NoPlan == [create |-> {}, delete |-> {}, update |-> {}]

RecIdle ==
    rec = [creds |-> TRUE, flag |-> FALSE, path |-> "none", exit |-> 0, held |-> 0,
           listed |-> <<>>, pageFailed |-> FALSE, dups |-> <<>>, kept |-> EmptyMap,
           by |-> EmptyMap, plan |-> NoPlan]

\* a selective_sync_datapoints run that has not made its first call
NotStarted ==
    [pc |-> "list", dups |-> <<>>, by |-> EmptyMap, dels |-> <<>>, upds |-> <<>>,
     creates |-> <<>>, pending |-> 0]

\* a store: its samples and its posted days
NoStore == [logs |-> <<>>, posts |-> EmptyMap]

\* no store file yet
WalIdle ==
    wal = [variant |-> "none", exists |-> FALSE, open |-> FALSE, schema |-> FALSE,
           main |-> NoStore, live |-> NoStore, copy |-> <<>>, direct |-> <<>>]

\* no mirror reconcile in progress
TxnIdle ==
    txn = [step |-> "idle", conn |-> [committed |-> NoStore, pending |-> NoStore],
           snapshot |-> NoStore, before |-> NoStore, todo |-> <<>>, at |-> "none"]

\* no reconciler run in progress
CcIdle == cc = [proc |-> [p \in Procs |-> NotStarted], started |-> FALSE, healed |-> FALSE]

AuxIdle ==
    PgIdle /\ GuardIdle /\ ClsIdle /\ OrchIdle /\ GhIdle /\ MissIdle /\ RecIdle /\ CcIdle /\ WalIdle /\ TxnIdle

others == <<syncVars, exVars, auxVars>>

Init == LogInit /\ SyncIdle /\ ExIdle /\ AuxIdle

\* one sampler process, restarted after it ends
Next ==
    \/ Start(1) /\ UNCHANGED others
    \/ Tick(1) /\ UNCHANGED others
    \/ MarkFirst(1) /\ UNCHANGED others
    \/ Upload(1) /\ UNCHANGED others
    \/ Trigger(1) /\ UNCHANGED others
    \/ MarkAfter(1) /\ UNCHANGED others
    \/ Interrupt(1) /\ UNCHANGED others
    \/ Kill(1) /\ UNCHANGED others
    \/ Advance /\ UNCHANGED others

Spec == Init /\ [][Next]_vars

\* two sampler processes on one store
ConcInit == LogInit /\ SyncIdle /\ ExIdle /\ AuxIdle /\ creds /\ offset = 0 /\ BeeIdle

ConcNext ==
    \/ \E p \in Procs : Start(p) /\ UNCHANGED others
    \/ \E p \in Procs : Tick(p) /\ UNCHANGED others
    \/ \E p \in Procs : MarkFirst(p) /\ UNCHANGED others
    \/ \E p \in Procs : Upload(p) /\ UNCHANGED others
    \/ \E p \in Procs : Trigger(p) /\ UNCHANGED others
    \/ \E p \in Procs : MarkAfter(p) /\ UNCHANGED others
    \/ \E p \in Procs : Interrupt(p) /\ UNCHANGED others
    \/ \E p \in Procs : Kill(p) /\ UNCHANGED others
    \/ Advance /\ UNCHANGED others

ConcSpec == ConcInit /\ [][ConcNext]_vars

\* ---- the sampler under the scheduling the service unit gives it ---------
\* Credentials are set; a night whose sample is recorded lasts until it is
\* posted and pushed; a call fails or the process is stopped from outside
\* only while the store has room for the sample of the run that retries.
local_time(logged_at) == logged_at \div MillisPerSecond + offset * SecondsPerHour

\* the day key main() computes for a stored sample
SampleKey(row) == DayKey(local_time(row.logged_at))

NightSampled(d) ==
    \E i \in DOMAIN logs : logs[i].is_night = 1 /\ SampleKey(logs[i]) = d

\* a successful upload for night d whose document holds a violation dated d
PushedWith(d) == \E u \in pushes : u[1] = d /\ d \in u[2]

PostedAndPushed(d) == d \in DOMAIN posts /\ PushedWith(d)

RoomToRetry == Len(logs) < MaxLogs

NightLasts == \E d \in Days : NightSampled(d) /\ ~PostedAndPushed(d)

FairInit == Init /\ creds /\ BeeIdle

FStart == Start(1) /\ UNCHANGED others
FTick == Tick(1) /\ UNCHANGED others
FMarkFirst == MarkFirst(1) /\ UNCHANGED others
FUploadOK == UploadCall(1, TRUE) /\ UNCHANGED others
FUploadFail == RoomToRetry /\ UploadCall(1, FALSE) /\ UNCHANGED others
FTriggerOK == TriggerCall(1, TRUE) /\ UNCHANGED others
FTriggerFail == RoomToRetry /\ TriggerCall(1, FALSE) /\ UNCHANGED others
FMarkAfter == MarkAfter(1) /\ UNCHANGED others
FInterrupt == RoomToRetry /\ Interrupt(1) /\ UNCHANGED others
FKill == RoomToRetry /\ Kill(1) /\ UNCHANGED others
FAdvance == ~NightLasts /\ Advance /\ UNCHANGED others

FairNext ==
    \/ FStart
    \/ FTick
    \/ FMarkFirst
    \/ FUploadOK
    \/ FUploadFail
    \/ FTriggerOK
    \/ FTriggerFail
    \/ FMarkAfter
    \/ FInterrupt
    \/ FKill
    \/ FAdvance

FairSpec ==
    /\ FairInit
    /\ [][FairNext]_vars
    /\ WF_vars(FStart)
    /\ SF_vars(FTick)
    /\ WF_vars(FMarkFirst)
    /\ SF_vars(FUploadOK)
    /\ SF_vars(FTriggerOK)
    /\ WF_vars(FMarkAfter)

\* ------------------------------------------------------------------------
\* The extractor called on a store of any content (the test suites insert
\* rows with explicit logged_at values)
\* ------------------------------------------------------------------------
SampleTimes ==
    {At(1, 23, 0) * MillisPerSecond + 198,
     At(2, 3, 59 * 60 + 59) * MillisPerSecond + 999,
     At(2, 4, 0) * MillisPerSecond,
     At(2, 6, 12 * 60 + 14) * MillisPerSecond + 942}

SampleRows == {[logged_at |-> t, is_night |-> n] : t \in SampleTimes, n \in {0, 1}}

StoredLogs == UNION {[1..n -> SampleRows] : n \in 0..MaxLogs}

PostedSets == {[d \in S |-> 0] : S \in SUBSET Days}

ExtractInit ==
    /\ SyncIdle
    /\ AuxIdle
    /\ ver = "orig"
    /\ offset = 0
    /\ creds = TRUE
    /\ clock = FirstTick
    /\ logs \in StoredLogs
    /\ posts \in PostedSets
    /\ pc = [p \in Procs |-> "stopped"]
    /\ cur = [p \in Procs |-> 0]
    /\ exitWhy = [p \in Procs |-> "none"]
    /\ upCalls = [p \in Procs |-> NoCalls]
    /\ trigCalls = [p \in Procs |-> NoCalls]
    /\ procDone = [p \in Procs |-> {}]
    /\ totalDone = NoCalls
    /\ remote = <<>>
    /\ pushes = {}
    /\ BeeIdle
    /\ fn = "none"
    /\ altPosts \in PostedSets
    /\ result = <<>>
    /\ altResult = <<>>

\* night_logger_github.extract_violations on the store and on its twin
RunExtract ==
    /\ fn' = "orig"
    /\ result' = <<extract_violations(logs, posts)>>
    /\ altResult' = <<extract_violations(logs, altPosts)>>
    /\ UNCHANGED <<syncVars, logVars, altPosts, auxVars>>

\* night_logger_github_fixed_v3.extract_violations on the store and on its twin
RunExtractV3 ==
    /\ fn' = "v3"
    /\ result' = <<extract_violations_v3(logs, posts)>>
    /\ altResult' = <<extract_violations_v3(logs, altPosts)>>
    /\ UNCHANGED <<syncVars, logVars, altPosts, auxVars>>

ExtractNext == RunExtract \/ RunExtractV3

ExtractSpec == ExtractInit /\ [][ExtractNext]_vars

\* ------------------------------------------------------------------------
\* The extractors called on a path: night_logger_github.py ("orig"),
\* night_logger_github_fixed_v3.py ("v3") and extract_violations.py
\* ("script"); the store at the path holds (logs, posts) or does not exist
\* ------------------------------------------------------------------------
ExtractorVariants == {"orig", "v3", "script"}

\* orig 99-106, v3 157-164: what the sampler's extractors return for a path
\* that does not exist (last_updated left out)
EmptyDocument ==
    [violations |-> <<>>, posted_dates |-> {}, total_violations |-> 0,
     unposted_violations |-> <<>>]

\* extract_violations.py 16-18: what the script's extractor returns for it
EmptyDocumentScript == [violations |-> <<>>]

\* extract_violations.py 24-33: GROUP BY DATE(logged_at) with the bare column
\* logged_at, which SQLite takes from a row of the group it chooses (row
\* number pick of the group, counted round), and COUNT(*)
RECURSIVE ScriptRows(_, _, _)
ScriptRows(L, dates, pick) ==
    IF dates = {} THEN <<>>
    ELSE LET d == CHOOSE x \in dates : \A y \in dates : x >= y
             rows == SelectSeq(L, LAMBDA r :
                        r.is_night = 1 /\ (r.logged_at \div MillisPerSecond) \div SecondsPerDay = d)
             row == rows[(pick % Len(rows)) + 1]
         IN <<[date |-> d, timestamp |-> row.logged_at, value |-> 1,
               comment |-> Comment(Len(rows)), daystamp |-> d]>>
            \o ScriptRows(L, dates \ {d}, pick)

\* extract_violations.py 13-63 on an existing store
extract_violations_script(L, P, pick) ==
    LET dates == {(L[i].logged_at \div MillisPerSecond) \div SecondsPerDay :
                    i \in {j \in DOMAIN L : L[j].is_night = 1}}
        violations == ScriptRows(L, dates, pick)
    IN [violations |-> violations,
        posted_dates |-> DOMAIN P,
        total_violations |-> Len(violations),
        unposted_violations |-> Unposted(violations, DOMAIN P)]

\* the first lines of each extractor: Path(db_path).exists()
ExtractAtPath(variant, exists, L, P, pick) ==
    CASE variant = "orig" -> IF exists THEN extract_violations(L, P) ELSE EmptyDocument
      [] variant = "v3" -> IF exists THEN extract_violations_v3(L, P) ELSE EmptyDocument
      [] OTHER -> IF exists THEN extract_violations_script(L, P, pick)
                  ELSE EmptyDocumentScript

PathInit ==
    /\ SyncIdle
    /\ ExIdle
    /\ PgIdle /\ GuardIdle /\ ClsIdle /\ OrchIdle /\ GhIdle /\ RecIdle /\ CcIdle /\ WalIdle /\ TxnIdle
    /\ ver = "orig"
    /\ offset = 0
    /\ creds = TRUE
    /\ clock = FirstTick
    /\ logs \in StoredLogs
    /\ posts \in PostedSets
    /\ pc = [p \in Procs |-> "stopped"]
    /\ cur = [p \in Procs |-> 0]
    /\ exitWhy = [p \in Procs |-> "none"]
    /\ upCalls = [p \in Procs |-> NoCalls]
    /\ trigCalls = [p \in Procs |-> NoCalls]
    /\ procDone = [p \in Procs |-> {}]
    /\ totalDone = NoCalls
    /\ remote = <<>>
    /\ pushes = {}
    /\ BeeIdle
    /\ miss \in [variant : {"none"}, exists : BOOLEAN, done : {FALSE}, doc : {<<>>}]

\* extract_violations(db_path) of one of the three programs
ExtractPath(variant) ==
    /\ \E pick \in 0..(MaxLogs - 1) :
          miss' = [miss EXCEPT
                      !.variant = variant,
                      !.done = TRUE,
                      !.doc = <<ExtractAtPath(variant, miss.exists, logs, posts, pick)>>]
    /\ UNCHANGED <<syncVars, logVars, exVars, pg, guard, cls, orch, gh, rec, cc, wal, txn>>

PathNext == \E variant \in ExtractorVariants : ExtractPath(variant)

PathSpec == PathInit /\ [][PathNext]_vars

\* ------------------------------------------------------------------------
\* extract_violations on a store the sampler holds open: open_db puts the
\* store in WAL mode, where a commit is appended to the -wal file and reaches
\* the database file at a checkpoint; extract_violations copies the database
\* file alone (shutil.copy2(db_path, temp_path)) and queries the copy
\* ------------------------------------------------------------------------
\* the samples a tick can commit
WalRows == {r \in SampleRows : r.is_night = 1}

\* the document the variant computes from a store's tables
ExtractFrom(variant, store) ==
    IF variant = "v3" THEN extract_violations_v3(store.logs, store.posts)
    ELSE extract_violations(store.logs, store.posts)

\* extract_violations through the copy of the database file. A file without
\* the tables: orig 121-123 raises and line 129 connects to the store itself;
\* v3 takes the OperationalError of the posts query for "no posted dates"
\* (lines 187-192) and finds no violation.
extract_from_copy(variant, schema, main, live) ==
    IF schema THEN ExtractFrom(variant, main)
    ELSE IF variant = "v3" THEN ExtractFrom(variant, NoStore)
    ELSE ExtractFrom(variant, live)

\* the same queries on a connection to the store
extract_directly(variant, schema, main, live) == ExtractFrom(variant, live)

walRest == <<syncVars, logVars, exVars, pg, guard, cls, orch, gh, miss, rec, cc, txn>>

\* open_db: connect, journal_mode = WAL, CREATE TABLE IF NOT EXISTS, commit
OpenDb ==
    /\ wal.variant = "none"
    /\ ~wal.open
    /\ wal' = [wal EXCEPT !.exists = TRUE, !.open = TRUE]
    /\ UNCHANGED walRest

\* the sampler's INSERT and commit
CommitSample ==
    /\ wal.variant = "none"
    /\ wal.open
    /\ Len(wal.live.logs) < MaxLogs
    /\ \E row \in WalRows :
          /\ \A i \in DOMAIN wal.live.logs : wal.live.logs[i].logged_at <= row.logged_at
          /\ wal' = [wal EXCEPT !.live.logs = Append(@, row)]
    /\ UNCHANGED walRest

\* mark_posted_today on the sampler's connection
MarkPostedDay ==
    /\ wal.variant = "none"
    /\ wal.open
    /\ \E d \in Days : wal' = [wal EXCEPT !.live.posts = mark_posted_today(@, d, 0)]
    /\ UNCHANGED walRest

\* a checkpoint: the -wal file's commits reach the database file
Checkpointed(w) == [w EXCEPT !.main = w.live, !.schema = TRUE]

\* the -wal file has grown to wal_autocheckpoint pages at a commit
AutoCheckpoint ==
    /\ wal.variant = "none"
    /\ wal.open
    /\ wal' = Checkpointed(wal)
    /\ UNCHANGED walRest

\* conn.close() of the last connection: checkpoint, the -wal file is removed
CloseDb ==
    /\ wal.variant = "none"
    /\ wal.open
    /\ wal' = [Checkpointed(wal) EXCEPT !.open = FALSE]
    /\ UNCHANGED walRest

\* extract_violations(db_path) of another process, and the same queries on
\* the store at the moment of the copy
ExtractWhileOpen(variant) ==
    /\ wal.variant = "none"
    /\ wal.exists
    /\ wal' = [wal EXCEPT
                  !.variant = variant,
                  !.copy = <<extract_from_copy(variant, wal.schema, wal.main, wal.live)>>,
                  !.direct = <<extract_directly(variant, wal.schema, wal.main, wal.live)>>]
    /\ UNCHANGED walRest

WalInit ==
    /\ LogIdle /\ SyncIdle /\ ExIdle
    /\ PgIdle /\ GuardIdle /\ ClsIdle /\ OrchIdle /\ GhIdle /\ MissIdle /\ RecIdle /\ CcIdle
    /\ TxnIdle
    /\ WalIdle

WalNext ==
    \/ OpenDb
    \/ CommitSample
    \/ MarkPostedDay
    \/ AutoCheckpoint
    \/ CloseDb
    \/ \E variant \in Versions : ExtractWhileOpen(variant)

WalSpec == WalInit /\ [][WalNext]_vars

\* ------------------------------------------------------------------------
\* Ledger reconciler: sync_violations.py
\* ------------------------------------------------------------------------
LateSecond == At(0, 23, 2)        \* 23:00:02 of a day
EarlySecond == At(1, 1, 14)       \* 01:00:14 of the following day
AuthComment == Comment(1)
AuthDays == {1, 2}

\* one violation as extract_violations writes it: the date is the attributed
\* date of the first detection, the timestamp an ISO string with milliseconds
Violation(ts, millis) ==
    [date |-> AttributedDateOfSeconds(ts),
     timestamp |-> ts * MillisPerSecond + millis,
     value |-> 1,
     comment |-> AuthComment]

\* the authority documents: per day no violation, one first detected at hour
\* 23, or one first detected at hour 1 of the next morning
AuthorityChoices ==
    {{v \in
        {Violation(d * SecondsPerDay + LateSecond, 198) : d \in {e \in AuthDays : c[e] = "late"}}
        \cup
        {Violation(d * SecondsPerDay + EarlySecond, 942) : d \in {e \in AuthDays : c[e] = "early"}}
      : TRUE}
     : c \in [AuthDays -> {"none", "late", "early"}]}

LedgerTimes ==
    {SecondsPerDay + LateSecond + 1, SecondsPerDay + LateSecond + 60,
     SecondsPerDay + EarlySecond, 2 * SecondsPerDay + LateSecond, At(3, 12, 0)}

LedgerPayloads ==
    <<[value |-> 1, comment |-> AuthComment],
      [value |-> 2, comment |-> AuthComment],
      [value |-> 1, comment |-> ForeignComment]>>

\* the initial ledgers: up to MaxLedger entries, equal entries included; the
\* service numbered them 1..n (one numbering per multiset of entries)
EntryKey(x) == x[1] * (Len(LedgerPayloads) + 1) + x[2]

InitialLedgers ==
    UNION {{ {[id |-> i, timestamp |-> f[i][1], value |-> LedgerPayloads[f[i][2]].value,
               comment |-> LedgerPayloads[f[i][2]].comment] : i \in 1..n}
             : f \in {g \in [1..n -> LedgerTimes \X DOMAIN LedgerPayloads] :
                         \A i \in 1..n, j \in 1..n : i < j => EntryKey(g[i]) <= EntryKey(g[j])}}
           : n \in 0..MaxLedger}

TZOffsets == {0, 0 - 4}

\* ---- the service's list endpoint -------------------------------------
\* Entries come back sorted by timestamp ('sort': 'timestamp'); the direction
\* is the service's: ascending by (timestamp, id) or descending by both, so
\* that of two entries with one timestamp either may be listed first.
Before(a, b, desc) ==
    IF a.timestamp # b.timestamp
    THEN (IF desc THEN a.timestamp > b.timestamp ELSE a.timestamp < b.timestamp)
    ELSE (IF desc THEN a.id > b.id ELSE a.id < b.id)

RECURSIVE Listing(_, _)
Listing(L, desc) ==
    IF L = {} THEN <<>>
    ELSE LET first == CHOOSE a \in L : \A b \in L \ {a} : Before(a, b, desc)
         IN <<first>> \o Listing(L \ {first}, desc)

\* BeeminderAPI.get_goal_datapoints with every page fetched
get_goal_datapoints(L, desc) == Listing(L, desc)

\* ---- create and delete calls -----------------------------------------
\* st = [ledger, nextId, calls, ok]: the service and the calls issued so far
delete_datapoint(st, dp, failDel) ==
    [st EXCEPT
        !.ledger = IF dp.id \in failDel THEN @ ELSE {e \in @ : e.id # dp.id},
        !.calls = Append(@, [op |-> "delete", key |-> dp.id]),
        !.ok = @ /\ dp.id \notin failDel]

create_datapoint(st, v, failCreate) ==
    [st EXCEPT
        !.ledger = IF v.date \in failCreate THEN @
                   ELSE @ \cup {[id |-> st.nextId,
                                 timestamp |-> SotUnix(v.timestamp),
                                 value |-> v.value,
                                 comment |-> v.comment]},
        !.nextId = IF v.date \in failCreate THEN @ ELSE @ + 1,
        !.calls = Append(@, [op |-> "create", key |-> v.date]),
        !.ok = @ /\ v.date \notin failCreate]

\* ---- selective_sync_datapoints ---------------------------------------
\* lines 137-150: group the listing by local date, keep the newer entry
RECURSIVE GroupByDate(_, _, _)
GroupByDate(L, byDate, dups) ==
    IF L = <<>> THEN [by |-> byDate, dups |-> dups]
    ELSE LET dp == Head(L)
             d == LocalDateOf(dp.timestamp)
         IN IF d \in DOMAIN byDate
            THEN IF dp.timestamp > byDate[d].timestamp
                 THEN GroupByDate(Tail(L), [byDate EXCEPT ![d] = dp],
                                  Append(dups, byDate[d]))
                 ELSE GroupByDate(Tail(L), byDate, Append(dups, dp))
            ELSE GroupByDate(Tail(L), byDate @@ (d :> dp), dups)

\* lines 164-167: after the refresh the last listed entry of a date wins
RECURSIVE LastWins(_, _)
LastWins(L, byDate) ==
    IF L = <<>> THEN byDate
    ELSE LET dp == Head(L)
             d == LocalDateOf(dp.timestamp)
         IN LastWins(Tail(L),
                     IF d \in DOMAIN byDate THEN [byDate EXCEPT ![d] = dp]
                     ELSE byDate @@ (d :> dp))

\* lines 155-159
RECURSIVE DeleteDuplicates(_, _, _)
DeleteDuplicates(st, dups, failDel) ==
    IF dups = <<>> THEN st
    ELSE DeleteDuplicates(delete_datapoint(st, Head(dups), failDel), Tail(dups), failDel)

\* a comparison that leaves the timestamp no tolerance
IsStaleExact(dp, v) ==
    \/ dp.timestamp # SotUnix(v.timestamp)
    \/ dp.value # v.value
    \/ dp.comment # v.comment

\* lines 193-195
IsStale(dp, v) ==
    \/ Abs(dp.timestamp - SotUnix(v.timestamp)) > 1
    \/ dp.value # v.value
    \/ dp.comment # v.comment

\* lines 204-209
RECURSIVE DeleteExtra(_, _, _, _)
DeleteExtra(st, dates, byDate, failDel) ==
    IF dates = <<>> THEN st
    ELSE DeleteExtra(delete_datapoint(st, byDate[Head(dates)], failDel),
                     Tail(dates), byDate, failDel)

\* lines 212-220: delete, and recreate when the delete succeeded
RECURSIVE UpdateChanged(_, _, _, _, _, _)
UpdateChanged(st, dates, byDate, sot, failDel, failCreate) ==
    IF dates = <<>> THEN st
    ELSE LET dp == byDate[Head(dates)]
             deleted == delete_datapoint(st, dp, failDel)
         IN UpdateChanged(
                IF dp.id \in failDel THEN deleted
                ELSE create_datapoint(deleted, sot[Head(dates)], failCreate),
                Tail(dates), byDate, sot, failDel, failCreate)

\* lines 223-226
RECURSIVE CreateMissing(_, _, _, _)
CreateMissing(st, dates, sot, failCreate) ==
    IF dates = <<>> THEN st
    ELSE CreateMissing(create_datapoint(st, sot[Head(dates)], failCreate),
                       Tail(dates), sot, failCreate)

\* a set of dates in the order a Python set iteration yields them: ascending
\* or descending here
RECURSIVE InOrder(_, _)
InOrder(S, desc) ==
    IF S = {} THEN <<>>
    ELSE LET d == CHOOSE x \in S : \A y \in S : IF desc THEN x >= y ELSE x <= y
         IN <<d>> \o InOrder(S \ {d}, desc)

\* sot_violations = {v['date']: v for v in violations}
SotViolations(auth) == [d \in {v.date : v \in auth} |-> CHOOSE v \in auth : v.date = d]

\* a batch that ends at the first failed call
ApplyDiffUntilFailure(st, byDate, auth, desc, failDel, failCreate) ==
    LET sot == SotViolations(auth)
        plan == [create |-> DOMAIN sot \ DOMAIN byDate,
                 delete |-> DOMAIN byDate \ DOMAIN sot,
                 update |-> {d \in DOMAIN sot \cap DOMAIN byDate : IsStale(byDate[d], sot[d])}]
        s1 == DeleteExtra(st, InOrder(plan.delete, desc), byDate, failDel)
        s2 == IF s1.ok
              THEN UpdateChanged(s1, InOrder(plan.update, desc), byDate, sot, failDel, failCreate)
              ELSE s1
    IN IF s2.ok THEN CreateMissing(s2, InOrder(plan.create, desc), sot, failCreate) ELSE s2

\* lines 171-226 on the map by_date
ApplyDiff(st, byDate, auth, desc, failDel, failCreate) ==
    LET sot == SotViolations(auth)
        sot_dates == DOMAIN sot
        beeminder_dates == DOMAIN byDate
        to_create == sot_dates \ beeminder_dates
        to_delete == beeminder_dates \ sot_dates
        to_check == sot_dates \cap beeminder_dates
        to_update == {d \in to_check : IsStale(byDate[d], sot[d])}
        s1 == DeleteExtra(st, InOrder(to_delete, desc), byDate, failDel)
        s2 == UpdateChanged(s1, InOrder(to_update, desc), byDate, sot, failDel, failCreate)
    IN CreateMissing(s2, InOrder(to_create, desc), sot, failCreate)

\* the results of one run: listDesc is the order of the service's listings,
\* desc the iteration order of the date sets
selective_sync_datapoints(auth, listDesc, desc, failDel, failCreate) ==
    LET st0 == [ledger |-> ledger, nextId |-> nextId, calls |-> <<>>, ok |-> TRUE]
        g == GroupByDate(get_goal_datapoints(ledger, listDesc), EmptyMap, <<>>)
        st1 == DeleteDuplicates(st0, g.dups, failDel)
        byDate == IF g.dups # <<>>
                  THEN LastWins(get_goal_datapoints(st1.ledger, listDesc), EmptyMap)
                  ELSE g.by
    IN ApplyDiff(st1, byDate, auth, desc, failDel, failCreate)

\* at most one failing call target per run
FailChoices(ids, dates) ==
    {<<{}, {}>>} \cup {<<{i}, {}>> : i \in ids} \cup {<<{}, {d}>> : d \in dates}

SyncInit ==
    /\ LogIdle
    /\ ExIdle
    /\ AuxIdle
    /\ authority \in AuthorityChoices
    /\ ledger \in InitialLedgers
    /\ nextId = MaxLedger + 1
    /\ tz \in TZOffsets
    /\ runs = 0
    /\ calls = <<>>
    /\ allOK = TRUE

RunSelectiveSync ==
    /\ runs < MaxRuns
    /\ \E listDesc \in BOOLEAN, desc \in BOOLEAN,
          f \in FailChoices({e.id : e \in ledger}, {v.date : v \in authority}) :
          LET st == selective_sync_datapoints(authority, listDesc, desc, f[1], f[2])
          IN /\ ledger' = st.ledger
             /\ nextId' = st.nextId
             /\ calls' = st.calls
             /\ allOK' = (allOK /\ st.ok)
    /\ runs' = runs + 1
    /\ UNCHANGED <<authority, tz>>
    /\ UNCHANGED <<logVars, exVars, auxVars>>

SyncNext == RunSelectiveSync

SyncSpec == SyncInit /\ [][SyncNext]_vars

\* sync_violations_to_beeminder, the entry point main() calls without
\* --nuclear-cleanup: lines 240-242 return before any ledger call when the
\* document lists no violation, line 245 runs the selective sync otherwise
sync_violations_to_beeminder(auth, listDesc, desc, failDel, failCreate) ==
    IF auth = {}
    THEN [ledger |-> ledger, nextId |-> nextId, calls |-> <<>>, ok |-> TRUE]
    ELSE selective_sync_datapoints(auth, listDesc, desc, failDel, failCreate)

RunSyncViolations ==
    /\ runs < MaxRuns
    /\ \E listDesc \in BOOLEAN, desc \in BOOLEAN,
          f \in FailChoices({e.id : e \in ledger}, {v.date : v \in authority}) :
          LET st == sync_violations_to_beeminder(authority, listDesc, desc, f[1], f[2])
          IN /\ ledger' = st.ledger
             /\ nextId' = st.nextId
             /\ calls' = st.calls
             /\ allOK' = (allOK /\ st.ok)
    /\ runs' = runs + 1
    /\ UNCHANGED <<authority, tz>>
    /\ UNCHANGED <<logVars, exVars, auxVars>>

EntryNext == RunSyncViolations

EntrySpec == SyncInit /\ [][EntryNext]_vars

\* ------------------------------------------------------------------------
\* main() of sync_violations.py: credentials, --nuclear-cleanup, and a run
\* whose list calls may fail
\* ------------------------------------------------------------------------
\* list calls get_goal_datapoints makes for n entries: the pages that hold
\* entries and the empty page that ends the loop (lines 30-50)
ListCalls(n) == (n + SyncPerPage - 1) \div SyncPerPage + 1

\* get_goal_datapoints when the request for page failAt raises (0: none
\* does): line 52-54 breaks and line 57 returns the pages fetched so far
FetchedPages(L, desc, failAt) ==
    LET all == Listing(L, desc)
        upto == (failAt - 1) * SyncPerPage
    IN IF failAt = 0 \/ upto >= Len(all) THEN all ELSE SubSeq(all, 1, upto)

\* lines 172-196: the three date sets of the diff
Plan(byDate, auth) ==
    LET sot == SotViolations(auth)
        to_check == DOMAIN sot \cap DOMAIN byDate
    IN [create |-> DOMAIN sot \ DOMAIN byDate,
        delete |-> DOMAIN byDate \ DOMAIN sot,
        update |-> {d \in to_check : IsStale(byDate[d], sot[d])}]

\* selective_sync_datapoints with the listings as fetched: the service after
\* the run and what the run saw (first listing, duplicates, the entry kept
\* per date by lines 137-150, the map the diff used, the plan)
selective_sync_fetched(auth, listDesc, desc, failDel, failCreate, failAt1, failAt2) ==
    LET st0 == [ledger |-> ledger, nextId |-> nextId, calls |-> <<>>, ok |-> TRUE]
        listed == FetchedPages(ledger, listDesc, failAt1)
        g == GroupByDate(listed, EmptyMap, <<>>)
        st1 == DeleteDuplicates(st0, g.dups, failDel)
        byDate == IF g.dups # <<>>
                  THEN LastWins(FetchedPages(st1.ledger, listDesc, failAt2), EmptyMap)
                  ELSE g.by
    IN [st |-> ApplyDiff(st1, byDate, auth, desc, failDel, failCreate),
        listed |-> listed,
        pageFailed |-> (failAt1 # 0 \/ (g.dups # <<>> /\ failAt2 # 0)),
        dups |-> g.dups, kept |-> g.by, by |-> byDate, plan |-> Plan(byDate, auth)]

\* a full resync that leaves the ledger as it finds it and only creates
nuclear_sync_without_cleanup(auth, listDesc, desc, failDel, failCreate, failAt) ==
    LET st0 == [ledger |-> ledger, nextId |-> nextId, calls |-> <<>>, ok |-> TRUE]
        listed == FetchedPages(ledger, listDesc, failAt)
    IN [st |-> CreateMissing(st0, InOrder({v.date : v \in auth}, desc),
                             SotViolations(auth), failCreate),
        listed |-> listed, pageFailed |-> failAt # 0,
        dups |-> <<>>, kept |-> EmptyMap, by |-> EmptyMap, plan |-> NoPlan]

\* nuclear_cleanup_and_sync, lines 247-272: a delete for every listed entry,
\* then a create for every violation of the document, in the document's order
nuclear_cleanup_and_sync(auth, listDesc, desc, failDel, failCreate, failAt) ==
    LET st0 == [ledger |-> ledger, nextId |-> nextId, calls |-> <<>>, ok |-> TRUE]
        listed == FetchedPages(ledger, listDesc, failAt)
        st1 == DeleteDuplicates(st0, listed, failDel)
    IN [st |-> CreateMissing(st1, InOrder({v.date : v \in auth}, desc),
                             SotViolations(auth), failCreate),
        listed |-> listed, pageFailed |-> failAt # 0,
        dups |-> <<>>, kept |-> EmptyMap, by |-> EmptyMap, plan |-> NoPlan]

\* what a run without a ledger call leaves
NoRun ==
    [st |-> [ledger |-> ledger, nextId |-> nextId, calls |-> <<>>, ok |-> TRUE],
     listed |-> <<>>, pageFailed |-> FALSE,
     dups |-> <<>>, kept |-> EmptyMap, by |-> EmptyMap, plan |-> NoPlan]

\* lines 283-295: which way main() goes
MainPath(hasCreds, flag, auth) ==
    IF ~hasCreds THEN "fatal"
    ELSE IF flag THEN "nuclear"
    ELSE IF auth = {} THEN "empty"
    ELSE "selective"

\* what fails in one run: either one list call, or any set of delete and
\* create calls
RunFaults ==
    LET ids == {e.id : e \in ledger}
        dates == {v.date : v \in authority}
        pages == 1..ListCalls(Cardinality(ledger))
    IN {[del |-> f[1], create |-> f[2], at1 |-> 0, at2 |-> 0] :
            f \in (SUBSET ids) \X (SUBSET dates)}
       \cup {[del |-> {}, create |-> {}, at1 |-> a, at2 |-> 0] : a \in pages}
       \cup {[del |-> {}, create |-> {}, at1 |-> 0, at2 |-> a] : a \in pages}

\* the service and the record of the run after main() has returned
Ran(hasCreds, flag, run) ==
    /\ ledger' = run.st.ledger
    /\ nextId' = run.st.nextId
    /\ calls' = run.st.calls
    /\ allOK' = (allOK /\ run.st.ok)
    /\ rec' = [creds |-> hasCreds, flag |-> flag,
               path |-> MainPath(hasCreds, flag, authority),
               exit |-> IF hasCreds THEN 0 ELSE 1,
               held |-> Cardinality(ledger),
               listed |-> run.listed, pageFailed |-> run.pageFailed,
               dups |-> run.dups, kept |-> run.kept, by |-> run.by,
               plan |-> run.plan]
    /\ runs' = runs + 1
    /\ UNCHANGED <<authority, tz>>
    /\ UNCHANGED <<logVars, exVars, pg, guard, cls, orch, gh, miss, cc, wal, txn>>

\* python sync_violations.py [--nuclear-cleanup] without the Beeminder
\* variables: ViolationsSync() raises, main() prints and exits 1
MainFatal(flag) ==
    /\ rec.path = "none"
    /\ Ran(FALSE, flag, NoRun)

\* python sync_violations.py
MainSelective ==
    /\ rec.path = "none"
    /\ IF MainPath(TRUE, FALSE, authority) = "empty"
       THEN Ran(TRUE, FALSE, NoRun)
       ELSE \E listDesc \in BOOLEAN, desc \in BOOLEAN, f \in RunFaults :
               Ran(TRUE, FALSE,
                   selective_sync_fetched(authority, listDesc, desc,
                                          f.del, f.create, f.at1, f.at2))

\* python sync_violations.py --nuclear-cleanup
MainNuclear ==
    /\ rec.path = "none"
    /\ \E listDesc \in BOOLEAN, desc \in BOOLEAN, f \in {g \in RunFaults : g.at2 = 0} :
          Ran(TRUE, TRUE,
              nuclear_cleanup_and_sync(authority, listDesc, desc, f.del, f.create, f.at1))

\* the ledgers main() is run on: entries with the night logger's comment
MainLedgers == {L \in InitialLedgers : \A e \in L : e.comment = AuthComment}

MainInit == SyncInit /\ ledger \in MainLedgers

MainNext ==
    \/ \E flag \in BOOLEAN : MainFatal(flag)
    \/ MainSelective
    \/ MainNuclear

MainSpec == MainInit /\ [][MainNext]_vars

\* ------------------------------------------------------------------------
\* Two selective_sync_datapoints runs against one goal and one authority,
\* one API call per step and no lock; then one run alone
\* ------------------------------------------------------------------------
\* the service as a call finds it
Service == [ledger |-> ledger, nextId |-> nextId, calls |-> <<>>, ok |-> TRUE]

\* the ids a delete call cannot delete: an entry another run has deleted is
\* answered with 404
Gone(dp) == IF dp \in ledger THEN {} ELSE {dp.id}

\* lines 171-198: the plan a run draws from its map, each date set in the
\* order the loops will take it
Planned(run, byDate, desc) ==
    LET plan == Plan(byDate, authority)
    IN [run EXCEPT !.pc = "apply",
                   !.by = byDate,
                   !.dels = InOrder(plan.delete, desc),
                   !.upds = InOrder(plan.update, desc),
                   !.creates = InOrder(plan.create, desc)]

ccRest == <<authority, tz, runs, calls, allOK, logVars, exVars,
            pg, guard, cls, orch, gh, miss, rec, wal, txn>>

\* line 127: the listing, lines 137-150: the grouping
CList(p) ==
    /\ cc.proc[p].pc = "list"
    /\ \E listDesc \in BOOLEAN, desc \in BOOLEAN :
          LET g == GroupByDate(get_goal_datapoints(ledger, listDesc), EmptyMap, <<>>)
          IN cc' = [cc EXCEPT
                       !.started = TRUE,
                       !.proc[p] = IF g.dups # <<>>
                                   THEN [@ EXCEPT !.pc = "dedup", !.dups = g.dups]
                                   ELSE Planned(@, g.by, desc)]
    /\ UNCHANGED <<ledger, nextId, ccRest>>

\* lines 155-159: one delete of a duplicate
CDedup(p) ==
    /\ cc.proc[p].pc = "dedup"
    /\ LET dp == Head(cc.proc[p].dups)
           st == delete_datapoint(Service, dp, Gone(dp))
       IN /\ ledger' = st.ledger
          /\ cc' = [cc EXCEPT !.proc[p].dups = Tail(@),
                               !.proc[p].pc = IF Tail(cc.proc[p].dups) = <<>>
                                              THEN "relist" ELSE "dedup"]
    /\ UNCHANGED <<nextId, ccRest>>

\* lines 162-167: the listing after the clean-up
CRelist(p) ==
    /\ cc.proc[p].pc = "relist"
    /\ \E listDesc \in BOOLEAN, desc \in BOOLEAN :
          cc' = [cc EXCEPT
                    !.proc[p] = Planned(@, LastWins(get_goal_datapoints(ledger, listDesc),
                                                    EmptyMap), desc)]
    /\ UNCHANGED <<ledger, nextId, ccRest>>

\* lines 204-209: one delete of an entry on a date the authority lacks
CDelete(p) ==
    /\ cc.proc[p].pc = "apply"
    /\ cc.proc[p].dels # <<>>
    /\ LET dp == cc.proc[p].by[Head(cc.proc[p].dels)]
       IN ledger' = delete_datapoint(Service, dp, Gone(dp)).ledger
    /\ cc' = [cc EXCEPT !.proc[p].dels = Tail(@)]
    /\ UNCHANGED <<nextId, ccRest>>

\* lines 212-215: the delete of a stale entry; line 216 follows if it succeeded
CUpdateDelete(p) ==
    /\ cc.proc[p].pc = "apply"
    /\ cc.proc[p].dels = <<>>
    /\ cc.proc[p].pending = 0
    /\ cc.proc[p].upds # <<>>
    /\ LET d == Head(cc.proc[p].upds)
           dp == cc.proc[p].by[d]
       IN /\ ledger' = delete_datapoint(Service, dp, Gone(dp)).ledger
          /\ cc' = [cc EXCEPT !.proc[p].upds = Tail(@),
                               !.proc[p].pending = IF dp \in ledger THEN d ELSE 0]
    /\ UNCHANGED <<nextId, ccRest>>

\* line 216: the create that follows the delete of a stale entry
CUpdateCreate(p) ==
    /\ cc.proc[p].pc = "apply"
    /\ cc.proc[p].pending # 0
    /\ LET st == create_datapoint(Service, SotViolations(authority)[cc.proc[p].pending], {})
       IN /\ ledger' = st.ledger
          /\ nextId' = st.nextId
    /\ cc' = [cc EXCEPT !.proc[p].pending = 0]
    /\ UNCHANGED ccRest

\* lines 223-226: one create of a missing date
CCreate(p) ==
    /\ cc.proc[p].pc = "apply"
    /\ cc.proc[p].dels = <<>>
    /\ cc.proc[p].pending = 0
    /\ cc.proc[p].upds = <<>>
    /\ cc.proc[p].creates # <<>>
    /\ LET st == create_datapoint(Service, SotViolations(authority)[Head(cc.proc[p].creates)], {})
       IN /\ ledger' = st.ledger
          /\ nextId' = st.nextId
    /\ cc' = [cc EXCEPT !.proc[p].creates = Tail(@)]
    /\ UNCHANGED ccRest

\* the run returns
CReturn(p) ==
    /\ cc.proc[p].pc = "apply"
    /\ cc.proc[p].dels = <<>>
    /\ cc.proc[p].pending = 0
    /\ cc.proc[p].upds = <<>>
    /\ cc.proc[p].creates = <<>>
    /\ cc' = [cc EXCEPT !.proc[p] = [NotStarted EXCEPT !.pc = "done"]]
    /\ UNCHANGED <<ledger, nextId, ccRest>>

\* one further run on its own, every call succeeding
Heal ==
    /\ \A p \in Procs : cc.proc[p].pc = "done"
    /\ ~cc.healed
    /\ \E listDesc \in BOOLEAN, desc \in BOOLEAN :
          LET st == selective_sync_datapoints(authority, listDesc, desc, {}, {})
          IN /\ ledger' = st.ledger
             /\ nextId' = st.nextId
             /\ calls' = st.calls
    /\ cc' = [cc EXCEPT !.healed = TRUE]
    /\ UNCHANGED <<authority, tz, runs, allOK, logVars, exVars,
                   pg, guard, cls, orch, gh, miss, rec, wal, txn>>

TwoRunsInit == SyncInit /\ ledger \in MainLedgers

TwoRunsNext ==
    \/ \E p \in Procs : CList(p)
    \/ \E p \in Procs : CDedup(p)
    \/ \E p \in Procs : CRelist(p)
    \/ \E p \in Procs : CDelete(p)
    \/ \E p \in Procs : CUpdateDelete(p)
    \/ \E p \in Procs : CUpdateCreate(p)
    \/ \E p \in Procs : CCreate(p)
    \/ \E p \in Procs : CReturn(p)
    \/ Heal

TwoRunsSpec == TwoRunsInit /\ [][TwoRunsNext]_vars

\* ------------------------------------------------------------------------
\* One pass of the main loop of the three samplers on a local time: the
\* classifier and the day key of the once-per-night check
\* ------------------------------------------------------------------------
SamplerVariants == {"orig", "v3", "updated"}

\* datetime values: every hour of two days at the ends of the hour
LocalTimes ==
    [date : Days, hour : 0..(HoursPerDay - 1), minute : {0, 59}, second : {0, 59},
     microsecond : {0, 999999}]

\* the local wall-clock second of a datetime (the classifier and strftime
\* read no field below the second)
SecondsOf(dt) == At(dt.date, dt.hour, dt.minute * 60 + dt.second)

\* night_logger_github_updated.py: is_night_time()
is_night_time(now) == HourOf(now) >= 23 \/ HourOf(now) <= 3

\* the ymd the main loop hands to already_posted_today and mark_posted_today
\* for a night sample: night_logger_github.py 324-329 and fixed_v3 385-390
\* go back a day in hours 0-3, night_logger_github_updated.py 266 does not
GuardKey(variant, now) ==
    IF variant = "updated" THEN local_ymd(now) ELSE DayKey(now)

ClassifyInit ==
    /\ LogIdle /\ MissIdle /\ RecIdle /\ CcIdle /\ WalIdle /\ TxnIdle
    /\ SyncIdle
    /\ ExIdle
    /\ PgIdle
    /\ GuardIdle
    /\ OrchIdle
    /\ GhIdle
    /\ cls \in [variant : SamplerVariants, now : LocalTimes, done : {FALSE},
                 is_night : {FALSE}, ymd : {0}]

LoopPass ==
    /\ ~cls.done
    /\ LET now == SecondsOf(cls.now)
           night == IF cls.variant = "updated" THEN is_night_time(now)
                    ELSE is_between_23_and_359_local(now)
       IN cls' = [cls EXCEPT !.done = TRUE,
                             !.is_night = night,
                             !.ymd = IF night THEN GuardKey(cls.variant, now) ELSE 0]
    /\ UNCHANGED <<syncVars, logVars, exVars, pg, guard, orch, gh, miss, rec, cc, wal, txn>>

ClassifyNext == LoopPass

ClassifySpec == ClassifyInit /\ [][ClassifyNext]_vars

\* ------------------------------------------------------------------------
\* GitHubAPI.upload_violations_to_branch against the repository, one HTTP
\* request per step. A document is the set of its violation dates; the
\* service gives the file a new sha with every write.
\* ------------------------------------------------------------------------
PushDocs == SUBSET Days

HttpOK == 200

HttpNotFound == 404

HttpError == 500

\* a write that sends what the file held together with the new document
merged_file_data(want, file_response) ==
    [content |-> want \cup file_response.content,
     sha |-> IF file_response.status = HttpOK THEN file_response.sha ELSE 0]

\* lines 248-256: the new document, with the sha of the file when the read
\* found one (sha 0: the key is left out)
file_data(want, file_response) ==
    [content |-> want,
     sha |-> IF file_response.status = HttpOK THEN file_response.sha ELSE 0]

\* the contents API accepts a PUT on an existing branch that creates the
\* file or names the sha the file has now
Accepts(data) ==
    /\ gh.branch
    /\ IF gh.doc = <<>> THEN data.sha = 0 ELSE data.sha = gh.sha

UploadInit ==
    /\ LogIdle /\ MissIdle /\ RecIdle /\ CcIdle /\ WalIdle /\ TxnIdle /\ SyncIdle /\ ExIdle /\ PgIdle /\ GuardIdle /\ ClsIdle /\ OrchIdle
    /\ GhIdle

ghRest == <<syncVars, logVars, exVars, pg, guard, cls, orch, miss, rec, cc, wal, txn>>

\* upload_violations_to_branch is called with the store's document
BeginUpload(content) ==
    /\ gh.step = "idle"
    /\ gh.calls < MaxPushCalls
    /\ gh' = [gh EXCEPT !.step = "branch", !.want = content, !.read = NoRead,
                        !.put = NoPut, !.ret = "none", !.calls = @ + 1]
    /\ UNCHANGED ghRest

\* the except clause: return False
ReturnFalse == [gh EXCEPT !.step = "idle", !.ret = "false"]

\* GET git/refs/heads/violations-data; only a 404 leads to the creation
GetBranch(status) ==
    /\ gh.step = "branch"
    /\ status = HttpOK => gh.branch
    /\ status = HttpNotFound => ~gh.branch
    /\ gh' = [gh EXCEPT !.step = IF status = HttpNotFound THEN "main" ELSE "file"]
    /\ UNCHANGED ghRest

\* GET git/refs/heads/main, raise_for_status
GetMainRef(ok) ==
    /\ gh.step = "main"
    /\ gh' = IF ok THEN [gh EXCEPT !.step = "create"] ELSE ReturnFalse
    /\ UNCHANGED ghRest

\* POST git/refs, raise_for_status; the service refuses a ref that exists
PostBranch(ok) ==
    /\ gh.step = "create"
    /\ ok => ~gh.branch
    /\ gh' = IF ok THEN [gh EXCEPT !.step = "file", !.branch = TRUE] ELSE ReturnFalse
    /\ UNCHANGED ghRest

\* GET contents/violations.json?ref=violations-data
GetFile(status) ==
    /\ gh.step = "file"
    /\ status = HttpOK => (gh.branch /\ gh.doc # <<>>)
    /\ status = HttpNotFound => (~gh.branch \/ gh.doc = <<>>)
    /\ gh' = [gh EXCEPT !.step = "put",
                        !.read = IF status = HttpOK
                                 THEN [status |-> status, sha |-> gh.sha, content |-> gh.doc[1]]
                                 ELSE [status |-> status, sha |-> 0, content |-> {}]]
    /\ UNCHANGED ghRest

\* PUT contents/violations.json, raise_for_status, return True
PutFile(delivered) ==
    /\ gh.step = "put"
    /\ LET data == file_data(gh.want, gh.read)
           sent == [sent |-> TRUE, content |-> data.content, sha |-> data.sha,
                    read |-> gh.read]
       IN gh' = IF delivered /\ Accepts(data)
                THEN [gh EXCEPT !.step = "idle", !.ret = "true", !.put = sent,
                                !.doc = <<data.content>>, !.sha = @ + 1,
                                !.last = <<gh.want>>]
                ELSE [ReturnFalse EXCEPT !.put = sent]
    /\ UNCHANGED ghRest

\* a push from another machine, all at once
OtherPush(content) ==
    /\ gh.calls < MaxPushCalls
    /\ gh' = [gh EXCEPT !.branch = TRUE, !.doc = <<content>>, !.sha = @ + 1,
                        !.last = <<content>>, !.calls = @ + 1]
    /\ UNCHANGED ghRest

UploadNext ==
    \/ \E content \in PushDocs : BeginUpload(content)
    \/ \E status \in {HttpOK, HttpNotFound, HttpError} : GetBranch(status)
    \/ \E ok \in BOOLEAN : GetMainRef(ok)
    \/ \E ok \in BOOLEAN : PostBranch(ok)
    \/ \E status \in {HttpOK, HttpNotFound, HttpError} : GetFile(status)
    \/ \E delivered \in BOOLEAN : PutFile(delivered)
    \/ \E content \in PushDocs : OtherPush(content)

UploadSpec == UploadInit /\ [][UploadNext]_vars

\* ------------------------------------------------------------------------
\* Table posts (ymd TEXT PRIMARY KEY, posted_at_utc) as a set of rows, under
\* any sequence of mark_posted_today and already_posted_today calls
\* ------------------------------------------------------------------------
\* INSERT INTO posts without a conflict clause: the primary key refuses a
\* second row for ymd and the statement raises sqlite3.IntegrityError
InsertOrFail(rows, ymd, utcnow) ==
    IF \E r \in rows : r.ymd = ymd
    THEN [rows |-> rows, error |-> TRUE]
    ELSE [rows |-> rows \cup {[ymd |-> ymd, posted_at_utc |-> utcnow]}, error |-> FALSE]

\* INSERT OR IGNORE INTO posts (ymd, posted_at_utc) VALUES (?, now): the
\* primary key refuses a second row for ymd and the statement is skipped
InsertOrIgnore(rows, ymd, utcnow) ==
    IF \E r \in rows : r.ymd = ymd
    THEN [rows |-> rows, error |-> FALSE]
    ELSE [rows |-> rows \cup {[ymd |-> ymd, posted_at_utc |-> utcnow]}, error |-> FALSE]

\* SELECT 1 FROM posts WHERE ymd = ? LIMIT 1 ... fetchone() is not None
SelectOne(rows, ymd) == \E r \in rows : r.ymd = ymd

GuardInit == LogIdle /\ MissIdle /\ RecIdle /\ CcIdle /\ WalIdle /\ TxnIdle /\ SyncIdle /\ ExIdle /\ PgIdle /\ GuardIdle /\ ClsIdle /\ OrchIdle /\ GhIdle

MarkPosted(d) ==
    /\ guard.now <= MaxMarks
    /\ ~guard.error
    /\ LET w == InsertOrIgnore(guard.rows, d, guard.now)
       IN guard' = [guard EXCEPT
                      !.rows = w.rows,
                      !.error = w.error,
                      !.marked = @ \cup {d},
                      !.first = IF d \in DOMAIN @ THEN @ ELSE @ @@ (d :> guard.now),
                      !.now = @ + 1]
    /\ UNCHANGED <<syncVars, logVars, exVars, pg, cls, orch, gh, miss, rec, cc, wal, txn>>

AskPosted(d) ==
    /\ ~guard.error
    /\ guard' = [guard EXCEPT !.asked = d,
                                !.answer = SelectOne(guard.rows, d),
                                !.wasMarked = (d \in guard.marked)]
    /\ UNCHANGED <<syncVars, logVars, exVars, pg, cls, orch, gh, miss, rec, cc, wal, txn>>

GuardNext ==
    \/ \E d \in Days : MarkPosted(d)
    \/ \E d \in Days : AskPosted(d)

GuardSpec == GuardInit /\ [][GuardNext]_vars

\* ------------------------------------------------------------------------
\* BeeminderAPI.get_goal_datapoints, one list call per step, in
\* sync_violations.py ("violations") and sync_nightlogger.py ("orchestrator")
\* ------------------------------------------------------------------------
ApiVariants == {"violations", "orchestrator"}

\* the service's answer to a list call for a page: the ledger's n entries,
\* numbered 1..n in timestamp order, served cap to a page
ServedPage(n, cap, page) ==
    LET first == (page - 1) * cap + 1
        last == Min(page * cap, n)
    IN IF first > n THEN <<>> ELSE [i \in 1..(last - first + 1) |-> first + i - 1]

PageInit ==
    /\ LogIdle /\ MissIdle /\ RecIdle /\ CcIdle /\ WalIdle /\ TxnIdle
    /\ SyncIdle
    /\ ExIdle
    /\ GuardIdle
    /\ ClsIdle
    /\ OrchIdle
    /\ GhIdle
    /\ pg \in [variant : ApiVariants, n : 0..MaxEntries, cap : 1..PerPage,
                page : {1}, got : {<<>>}, calls : {0},
                done : {FALSE}, failed : {FALSE}]

\* one pass of the while loop: the list call, then the break conditions
ListCall(ok) ==
    /\ ~pg.done
    /\ LET page_data == ServedPage(pg.n, pg.cap, pg.page)
       IN pg' =
            IF ~ok
            THEN [pg EXCEPT !.calls = @ + 1, !.done = TRUE, !.failed = TRUE]
            ELSE IF page_data = <<>>
            THEN [pg EXCEPT !.calls = @ + 1, !.done = TRUE]
            ELSE IF pg.variant = "orchestrator" /\ Len(page_data) < PerPage
            THEN [pg EXCEPT !.calls = @ + 1, !.got = @ \o page_data, !.done = TRUE]
            ELSE [pg EXCEPT !.calls = @ + 1, !.got = @ \o page_data, !.page = @ + 1]
    /\ UNCHANGED <<syncVars, logVars, exVars, guard, cls, orch, gh, miss, rec, cc, wal, txn>>

ListPage == ListCall(TRUE)

ListFails == ListCall(FALSE)

PageNext == ListPage \/ ListFails

PageSpec == PageInit /\ [][PageNext]_vars /\ WF_vars(PageNext)

\* ------------------------------------------------------------------------
\* Orchestrator: sync_nightlogger.py
\* A database file is <<>> when absent and <<[posts, logs]>> otherwise, with
\* posts a function ymd -> posted_at_utc and logs the rows in rowid order
\* ------------------------------------------------------------------------
\* SELECT ymd FROM posts
get_posted_days_from_db(db) == IF db = <<>> THEN {} ELSE DOMAIN db[1].posts

\* rows in ascending logged_at, rows of equal logged_at in rowid order
RECURSIVE InsertByLoggedAt(_, _)
InsertByLoggedAt(sorted, row) ==
    IF sorted = <<>> THEN <<row>>
    ELSE IF sorted[Len(sorted)].logged_at <= row.logged_at THEN Append(sorted, row)
    ELSE Append(InsertByLoggedAt(SubSeq(sorted, 1, Len(sorted) - 1), row),
                sorted[Len(sorted)])

RECURSIVE OrderByLoggedAt(_)
OrderByLoggedAt(rows) ==
    IF rows = <<>> THEN <<>>
    ELSE InsertByLoggedAt(OrderByLoggedAt(SubSeq(rows, 1, Len(rows) - 1)), rows[Len(rows)])

\* SELECT logged_at, is_night FROM logs ORDER BY logged_at
get_logs_from_db(db) == IF db = <<>> THEN <<>> ELSE OrderByLoggedAt(db[1].logs)

\* a two-way merge: days and rows of the mirror are copied into the snapshot
sync_hsot_and_sot(hsot, sot) ==
    LET merged == [posts |-> sot[1].posts @@ hsot[1].posts,
                   logs |-> OrderByLoggedAt(hsot[1].logs \o sot[1].logs)]
    IN [hsot |-> <<merged>>, sot |-> <<merged>>,
        ops |-> [inserts |-> Len(hsot[1].logs), deletes |-> 0]]

\* sync_hsot_to_sot on an existing snapshot file and an existing mirror:
\* what the two files hold afterwards and the INSERT and DELETE statements
\* run on the mirror
sync_hsot_to_sot(hsot, sot) ==
    LET hsot_posts == get_posted_days_from_db(hsot)
        hsot_logs == get_logs_from_db(hsot)
        sot_posts == get_posted_days_from_db(sot)
        sot_logs == get_logs_from_db(sot)
        posts_to_add == hsot_posts \ sot_posts
        posts_to_remove == sot_posts \ hsot_posts
        replace == hsot_logs # sot_logs
        kept == [d \in (sot_posts \cup posts_to_add) \ posts_to_remove |->
                     IF d \in posts_to_add THEN hsot[1].posts[d] ELSE sot[1].posts[d]]
    IN [hsot |-> hsot,
        sot |-> <<[posts |-> kept,
                   logs |-> IF replace THEN hsot_logs ELSE sot[1].logs]>>,
        ops |-> [inserts |-> Cardinality(posts_to_add)
                               + (IF replace THEN Len(hsot_logs) ELSE 0),
                 deletes |-> Cardinality(posts_to_remove)
                               + (IF replace THEN 1 ELSE 0)]]

\* the stored rows of the snapshots and mirrors considered
MirrorRows ==
    {[logged_at |-> At(1, 23, 0) * MillisPerSecond + 198, is_night |-> 1],
     [logged_at |-> At(2, 6, 12 * 60 + 14) * MillisPerSecond + 942, is_night |-> 0]}

MirrorLogs == UNION {[1..n -> MirrorRows] : n \in 0..MaxMirrorLogs}

\* posted_at_utc values: the sampler's, and another one
PostedAtHsot == At(1, 23, 1) * MillisPerSecond

PostedAtOther == At(2, 9, 0) * MillisPerSecond

HsotFiles == {<<[posts |-> [d \in S |-> PostedAtHsot], logs |-> L]>> :
                  S \in SUBSET Days, L \in MirrorLogs}

SotFiles == {<<[posts |-> P, logs |-> L]>> :
                 P \in UNION {[S -> {PostedAtHsot, PostedAtOther}] : S \in SUBSET Days},
                 L \in MirrorLogs}

orchRest == <<syncVars, logVars, exVars, pg, guard, cls, gh, miss, rec, cc, wal, txn>>

MirrorInit ==
    /\ LogIdle /\ MissIdle /\ RecIdle /\ CcIdle /\ WalIdle /\ TxnIdle /\ SyncIdle /\ ExIdle /\ PgIdle /\ GuardIdle /\ ClsIdle /\ GhIdle
    /\ \E h \in HsotFiles, m \in SotFiles :
          orch = [remote |-> h, hsot |-> h, sot |-> m, ledger |-> {}, nextId |-> 1,
                  stage |-> "idle", has_hsot |-> TRUE, exit |-> 0, ops |-> NoOps,
                  calls |-> <<>>, ok |-> TRUE, fault |-> "none", ran |-> <<>>, runs |-> 0,
                  pull |-> "none", sot0 |-> m, hadDup |-> FALSE]

\* one call of sync_hsot_to_sot
SyncHsotToSot ==
    /\ orch.runs < MaxRuns
    /\ LET r == sync_hsot_to_sot(orch.hsot, orch.sot)
       IN orch' = [orch EXCEPT !.hsot = r.hsot, !.sot = r.sot, !.ops = r.ops,
                               !.ran = Append(@, "mirror"), !.runs = @ + 1]
    /\ UNCHANGED orchRest

MirrorNext == SyncHsotToSot

MirrorSpec == MirrorInit /\ [][MirrorNext]_vars

\* ---- sync_hsot_to_sot, one statement per step ---------------------------
\* The mirror's connection is [committed, pending]: what the file holds for
\* every reader, and what the connection sees inside its open transaction.
\* the rows a statement leaves in a database
Applied(db, stmt) ==
    CASE stmt.op = "insert_post" -> [db EXCEPT !.posts = (stmt.ymd :> stmt.at) @@ @]
      [] stmt.op = "delete_post" ->
             [db EXCEPT !.posts = [d \in DOMAIN @ \ {stmt.ymd} |-> @[d]]]
      [] stmt.op = "delete_logs" -> [db EXCEPT !.logs = <<>>]
      [] OTHER -> [db EXCEPT !.logs = @ \o stmt.rows]

\* a connection in autocommit mode: every statement reaches the file at once
execute_autocommit(conn, stmt) ==
    [committed |-> Applied(conn.pending, stmt), pending |-> Applied(conn.pending, stmt)]

\* sot_conn.execute / executemany on sqlite3.connect(self.sot_db_path), line
\* 238, with the module's default isolation level: the first INSERT or DELETE
\* opens a transaction and the statements stay in it
execute(conn, stmt) == [conn EXCEPT !.pending = Applied(@, stmt)]

\* sot_conn.commit(), line 272
commit(conn) == [conn EXCEPT !.committed = conn.pending]

\* the connection goes away with its transaction open (the exception leaves
\* sync_hsot_to_sot and run_sync calls sys.exit(1), or the process is
\* killed): SQLite rolls the transaction back
rollback(conn) == [conn EXCEPT !.pending = conn.committed]

\* lines 241-270: the statements of one run, in the order they are executed
Statements(hsot, sot) ==
    LET hsot_posts == get_posted_days_from_db(hsot)
        sot_posts == get_posted_days_from_db(sot)
        adds == InOrder(hsot_posts \ sot_posts, FALSE)
        removes == InOrder(sot_posts \ hsot_posts, FALSE)
    IN [i \in DOMAIN adds |->
            [op |-> "insert_post", ymd |-> adds[i], at |-> hsot[1].posts[adds[i]]]]
       \o [i \in DOMAIN removes |-> [op |-> "delete_post", ymd |-> removes[i]]]
       \o (IF get_logs_from_db(hsot) # get_logs_from_db(sot)
           THEN <<[op |-> "delete_logs"],
                  [op |-> "insert_logs", rows |-> get_logs_from_db(hsot)]>>
           ELSE <<>>)

txnRest == <<syncVars, logVars, exVars, pg, guard, cls, orch, gh, miss, rec, cc, wal>>

\* lines 231-238: read both files, connect to the mirror
TxnStart ==
    /\ txn.step = "idle"
    /\ \E h \in HsotFiles, m \in SotFiles :
          txn' = [step |-> "running",
                  conn |-> [committed |-> m[1], pending |-> m[1]],
                  snapshot |-> h[1], before |-> m[1],
                  todo |-> Statements(h, m), at |-> "none"]
    /\ UNCHANGED txnRest

\* the next statement of lines 244-270
TxnExecute ==
    /\ txn.step = "running"
    /\ txn.todo # <<>>
    /\ txn' = [txn EXCEPT !.conn = execute(@, Head(txn.todo)), !.todo = Tail(@)]
    /\ UNCHANGED txnRest

\* lines 272-273
TxnCommit ==
    /\ txn.step = "running"
    /\ txn.todo = <<>>
    /\ txn' = [txn EXCEPT !.conn = commit(@), !.step = "done"]
    /\ UNCHANGED txnRest

\* the next statement raises (sqlite3.Error) or the process dies before it
TxnFail ==
    /\ txn.step = "running"
    /\ txn.todo # <<>>
    /\ txn' = [txn EXCEPT !.conn = rollback(@), !.step = "failed",
                          !.at = Head(txn.todo).op]
    /\ UNCHANGED txnRest

TxnInit ==
    /\ LogIdle /\ SyncIdle /\ ExIdle
    /\ PgIdle /\ GuardIdle /\ ClsIdle /\ OrchIdle /\ GhIdle /\ MissIdle /\ RecIdle /\ CcIdle
    /\ WalIdle
    /\ TxnIdle

TxnNext ==
    \/ TxnStart
    \/ TxnExecute
    \/ TxnCommit
    \/ TxnFail

TxnSpec == TxnInit /\ [][TxnNext]_vars

\* ---- sync_sot_to_beeminder -------------------------------------------
\* a ledger entry is [id, timestamp, value, comment, requestid]; requestid 0
\* stands for none
RestoredText == "Auto-logged by night_logger (restored from SoT) for ymd"

\* f"Auto-logged by night_logger (restored from SoT) for {ymd}"
RestoredComment(ymd) == [text |-> RestoredText, n |-> ymd]

\* 'night_logger' in comment.lower() or 'auto-logged' in comment.lower(), on
\* the comment texts of this model
IsNightLoggerComment(c) == c.text = RestoredText

\* a reconcile that stamps the entry at 00:00 UTC of the day
MidnightOf(ymd) == At(ymd, 0, 0)

\* int(time.mktime(noon of ymd, local time))
NoonOf(ymd) == At(ymd, 12, 0) - tz * SecondsPerHour

\* lines 289-304: the night-logger entries of the listing by local date, the
\* last listed entry of a date kept
RECURSIVE NightLoggerByDate(_, _)
NightLoggerByDate(L, byDate) ==
    IF L = <<>> THEN byDate
    ELSE LET dp == Head(L)
             ymd == LocalDateOf(dp.timestamp)
         IN NightLoggerByDate(Tail(L),
                IF ~IsNightLoggerComment(dp.comment) THEN byDate
                ELSE IF ymd \in DOMAIN byDate THEN [byDate EXCEPT ![ymd] = dp]
                ELSE byDate @@ (ymd :> dp))

\* BeeminderAPI.create_datapoint of sync_nightlogger.py; the service keeps
\* one entry to a requestid and overwrites it when the requestid comes again
OrchCreate(st, ymd, failCreate) ==
    LET made == [id |-> st.nextId, timestamp |-> NoonOf(ymd), value |-> 1,
                 comment |-> RestoredComment(ymd), requestid |-> ymd]
        known == {e \in st.ledger : e.requestid = ymd}
    IN [st EXCEPT
          !.ledger = IF ymd \in failCreate THEN @
                     ELSE IF known # {}
                     THEN {IF e \in known THEN [made EXCEPT !.id = e.id] ELSE e : e \in @}
                     ELSE @ \cup {made},
          !.nextId = IF ymd \in failCreate \/ known # {} THEN @ ELSE @ + 1,
          !.calls = Append(@, [op |-> "create", key |-> ymd]),
          !.ok = @ /\ ymd \notin failCreate]

\* lines 320-340
RECURSIVE AddMissing(_, _, _)
AddMissing(st, dates, failCreate) ==
    IF dates = <<>> THEN st
    ELSE AddMissing(OrchCreate(st, Head(dates), failCreate), Tail(dates), failCreate)

\* lines 346-355
RECURSIVE RemoveExtra(_, _, _, _)
RemoveExtra(st, dates, byDate, failDel) ==
    IF dates = <<>> THEN st
    ELSE RemoveExtra(delete_datapoint(st, byDate[Head(dates)], failDel),
                     Tail(dates), byDate, failDel)

\* a reconcile that also marks in the mirror the days found in the ledger
sync_sot_and_beeminder(sot, st, listing, failDel, failCreate) ==
    LET byDate == NightLoggerByDate(listing, EmptyMap)
    IN [sot |-> IF sot = <<>> THEN sot
                ELSE <<[sot[1] EXCEPT !.posts =
                          @ @@ [d \in DOMAIN byDate |-> PostedAtOther]]>>,
        st |-> st]

\* sync_sot_to_beeminder on the listing get_goal_datapoints returned: what
\* the mirror file and the ledger hold afterwards
sync_sot_to_beeminder(sot, st, listing, failDel, failCreate) ==
    LET sot_posts == get_posted_days_from_db(sot)
        beeminder_by_date == NightLoggerByDate(listing, EmptyMap)
        beeminder_dates == DOMAIN beeminder_by_date
        dates_to_add_to_beeminder == sot_posts \ beeminder_dates
        dates_to_remove_from_beeminder == beeminder_dates \ sot_posts
        s1 == AddMissing(st, InOrder(dates_to_add_to_beeminder, FALSE), failCreate)
    IN [sot |-> sot,
        st |-> RemoveExtra(s1, InOrder(dates_to_remove_from_beeminder, FALSE),
                           beeminder_by_date, failDel)]

\* the ledgers the orchestrator meets: entries it restored itself at noon,
\* entries another writer logged at 09:00 with a night-logger comment, and
\* entries of other origin
OrchEntryKinds ==
    {[timestamp |-> NoonOf(d), value |-> 1, comment |-> RestoredComment(d), requestid |-> d]
        : d \in Days}
    \cup {[timestamp |-> At(d, 9, 0), value |-> 1, comment |-> RestoredComment(d),
           requestid |-> 0] : d \in Days}
    \cup {[timestamp |-> At(1, 9, 30), value |-> 1, comment |-> ForeignComment,
           requestid |-> 0]}

\* one numbering 1..n per set of entries
RECURSIVE Numbered(_, _)
Numbered(S, n) ==
    IF S = {} THEN {}
    ELSE LET k == CHOOSE x \in S : \A y \in S : x.timestamp >= y.timestamp
         IN {[id |-> n, timestamp |-> k.timestamp, value |-> k.value,
              comment |-> k.comment, requestid |-> k.requestid]}
            \cup Numbered(S \ {k}, n - 1)

OrchLedgers ==
    {Numbered(S, Cardinality(S)) : S \in {T \in SUBSET OrchEntryKinds : Cardinality(T) <= MaxLedger}}

\* two night-logger entries of the ledger lie on one local date
HasDuplicates(L) ==
    \E a \in L, b \in L :
        /\ a.id # b.id
        /\ IsNightLoggerComment(a.comment) /\ IsNightLoggerComment(b.comment)
        /\ LocalDateOf(a.timestamp) = LocalDateOf(b.timestamp)

\* the mirrors of the ledger reconcile: posted days only
PostedOnly == {<<[posts |-> [d \in S |-> PostedAtHsot], logs |-> <<>>]>> : S \in SUBSET Days}

LedgerInit ==
    /\ LogIdle /\ MissIdle /\ RecIdle /\ CcIdle /\ WalIdle /\ TxnIdle /\ SyncIdle /\ ExIdle /\ PgIdle /\ GuardIdle /\ ClsIdle /\ GhIdle
    /\ \E m \in PostedOnly, L \in OrchLedgers :
          orch = [remote |-> <<>>, hsot |-> <<>>, sot |-> m, ledger |-> L,
                  nextId |-> MaxLedger + 1,
                  stage |-> "idle", has_hsot |-> FALSE, exit |-> 0, ops |-> NoOps,
                  calls |-> <<>>, ok |-> TRUE, fault |-> "none", ran |-> <<>>, runs |-> 0,
                  pull |-> "none", sot0 |-> m, hadDup |-> HasDuplicates(L)]

\* one call of sync_sot_to_beeminder; the list call fails (the listing comes
\* back empty) or one create or delete target fails, or nothing fails
LedgerReconcile(listOK, listDesc, f) ==
    LET listing == IF listOK THEN Listing(orch.ledger, listDesc) ELSE <<>>
        st0 == [ledger |-> orch.ledger, nextId |-> orch.nextId, calls |-> <<>>, ok |-> listOK]
        r == sync_sot_to_beeminder(orch.sot, st0, listing, f[1], f[2])
    IN [orch EXCEPT !.sot = r.sot, !.ledger = r.st.ledger, !.nextId = r.st.nextId,
                    !.calls = r.st.calls, !.ok = @ /\ r.st.ok,
                    !.ran = Append(@, "ledger")]

SyncSotToBeeminder ==
    /\ orch.runs < MaxRuns
    /\ \E listOK \in BOOLEAN, listDesc \in BOOLEAN,
          f \in FailChoices({e.id : e \in orch.ledger}, Days) :
          /\ (listOK \/ f = <<{}, {}>>)
          /\ orch' = [LedgerReconcile(listOK, listDesc, f) EXCEPT !.runs = @ + 1]
    /\ UNCHANGED orchRest

LedgerNext == SyncSotToBeeminder

LedgerSpec == LedgerInit /\ [][LedgerNext]_vars

\* sync_sot_to_beeminder on machines of either time zone
ZonedLedgerInit ==
    /\ LogIdle /\ ExIdle
    /\ PgIdle /\ GuardIdle /\ ClsIdle /\ GhIdle /\ MissIdle /\ RecIdle /\ CcIdle
    /\ WalIdle /\ TxnIdle
    /\ ledger = {}
    /\ nextId = 1
    /\ authority = {}
    /\ runs = 0
    /\ calls = <<>>
    /\ allOK = TRUE
    /\ tz \in TZOffsets
    /\ \E m \in PostedOnly, L \in OrchLedgers :
          orch = [remote |-> <<>>, hsot |-> <<>>, sot |-> m, ledger |-> L,
                  nextId |-> MaxLedger + 1,
                  stage |-> "idle", has_hsot |-> FALSE, exit |-> 0, ops |-> NoOps,
                  calls |-> <<>>, ok |-> TRUE, fault |-> "none", ran |-> <<>>, runs |-> 0,
                  pull |-> "none", sot0 |-> m, hadDup |-> HasDuplicates(L)]

ZonedLedgerSpec == ZonedLedgerInit /\ [][LedgerNext]_vars

\* ---- run_sync, one stage per step --------------------------------------
\* the snapshots on the remote branch and the mirrors run_sync starts from
OrchSnapshots == {<<>>} \cup {h \in HsotFiles : Len(h[1].logs) <= 1}

OrchMirrors == {<<>>} \cup PostedOnly

EmptyDb == <<[posts |-> EmptyMap, logs |-> <<>>]>>

OrchInit ==
    /\ LogIdle /\ MissIdle /\ RecIdle /\ CcIdle /\ WalIdle /\ TxnIdle /\ SyncIdle /\ ExIdle /\ PgIdle /\ GuardIdle /\ ClsIdle /\ GhIdle
    /\ \E h \in OrchSnapshots, m \in OrchMirrors, L \in OrchLedgers :
          orch = [remote |-> h, hsot |-> <<>>, sot |-> m, ledger |-> L,
                  nextId |-> MaxLedger + 1,
                  stage |-> "idle", has_hsot |-> FALSE, exit |-> 0, ops |-> NoOps,
                  calls |-> <<>>, ok |-> TRUE, fault |-> "none", ran |-> <<>>, runs |-> 0,
                  pull |-> "none", sot0 |-> m, hadDup |-> HasDuplicates(L)]

\* python sync_nightlogger.py sync
StartSync ==
    /\ orch.stage \in {"idle", "done", "failed"}
    /\ orch.runs < MaxRuns
    /\ orch' = [orch EXCEPT !.stage = "create", !.has_hsot = FALSE, !.exit = 0,
                            !.ops = NoOps, !.calls = <<>>, !.ok = TRUE,
                            !.fault = "none", !.ran = <<>>, !.pull = "none"]
    /\ UNCHANGED orchRest

\* the except clause of run_sync: sys.exit(1)
Abort(stage) ==
    [orch EXCEPT !.stage = "failed", !.exit = 1, !.fault = stage,
                 !.ran = Append(@, stage), !.runs = @ + 1]

\* step 1, create_sot_database: nothing to do when the file exists
CreateSot(ok) ==
    /\ orch.stage = "create"
    /\ (ok \/ orch.sot = <<>>)
    /\ orch' = IF ~ok THEN Abort("create")
               ELSE [orch EXCEPT !.sot = IF @ = <<>> THEN EmptyDb ELSE @,
                                 !.sot0 = IF orch.sot = <<>> THEN EmptyDb ELSE orch.sot,
                                 !.stage = "pull", !.ran = Append(@, "create")]
    /\ UNCHANGED orchRest

\* step 2, download_hsot_database: True when the file came, False when there
\* is no token, when the answer is 404 and when anything raised
DownloadHsot(outcome) ==
    /\ orch.stage = "pull"
    /\ outcome = "ok" => orch.remote # <<>>
    /\ outcome = "absent" => orch.remote = <<>>
    /\ orch' = [orch EXCEPT
                   !.hsot = IF outcome = "ok" THEN orch.remote ELSE @,
                   !.has_hsot = (outcome = "ok"),
                   !.pull = outcome,
                   !.fault = IF outcome = "error" THEN "pull" ELSE @,
                   !.ran = Append(@, "pull"),
                   !.stage = IF outcome = "ok" THEN "mirror" ELSE "ledger"]
    /\ UNCHANGED orchRest

\* step 3, sync_hsot_to_sot; an sqlite3 error leaves the mirror uncommitted
MirrorStage(ok) ==
    /\ orch.stage = "mirror"
    /\ orch' = IF ~ok THEN Abort("mirror")
               ELSE LET r == sync_hsot_to_sot(orch.hsot, orch.sot)
                    IN [orch EXCEPT !.hsot = r.hsot, !.sot = r.sot, !.ops = r.ops,
                                    !.stage = "ledger", !.ran = Append(@, "mirror")]
    /\ UNCHANGED orchRest

\* step 4, sync_sot_to_beeminder: the API wrappers catch the request errors
\* and return, so run_sync goes on to "completed successfully"
LedgerStage ==
    /\ orch.stage = "ledger"
    /\ \E listOK \in BOOLEAN, listDesc \in BOOLEAN,
          f \in FailChoices({e.id : e \in orch.ledger}, Days) :
          /\ (listOK \/ f = <<{}, {}>>)
          /\ LET r == LedgerReconcile(listOK, listDesc, f)
             IN orch' = [r EXCEPT !.stage = "done", !.exit = 0, !.runs = @ + 1,
                                  !.fault = IF orch.fault = "none" /\ ~r.ok
                                            THEN "ledger" ELSE @]
    /\ UNCHANGED orchRest

OrchNext ==
    \/ StartSync
    \/ CreateSot(TRUE)
    \/ CreateSot(FALSE)
    \/ \E outcome \in {"ok", "absent", "error", "no_token"} : DownloadHsot(outcome)
    \/ MirrorStage(TRUE)
    \/ MirrorStage(FALSE)
    \/ LedgerStage

OrchSpec == OrchInit /\ [][OrchNext]_vars

\* ---- claims about the reconciler --------------------------------------
AuthorityDates == {v.date : v \in authority}
EntriesOn(d) == {e \in ledger : LocalDateOf(e.timestamp) = d}
Matches(e, v) ==
    /\ Abs(e.timestamp - SotUnix(v.timestamp)) <= 1
    /\ e.value = v.value
    /\ e.comment = v.comment

\* the ledger equals the authority: one matching entry per authority date,
\* nothing on any other date
Converged ==
    /\ \A v \in authority :
          /\ Cardinality(EntriesOn(v.date)) = 1
          /\ \A e \in EntriesOn(v.date) : Matches(e, v)
    /\ \A e \in ledger : LocalDateOf(e.timestamp) \in AuthorityDates

\* C1: once a run has completed with every call succeeding and the authority
\* is unchanged, the next run issues no create call and no delete call.
C1_SecondRunIssuesNoCalls ==
    [][(runs >= 1 /\ allOK /\ runs' = runs + 1) => calls' = <<>>]_vars

\* C2: after a run in which every call succeeded the ledger holds exactly one
\* entry per authority date, carrying the authority's timestamp (within one
\* second), value and comment, and no entry on any other date.
C2_ConvergedAfterOneRun == (runs >= 1 /\ allOK) => Converged

\* the same two statements for a reconciler whose local dates agree with the
\* attributed dates (UTC-4): there they hold
SyncDatesAgree == tz = 0 - 4
C1_WhereDatesAgree ==
    [][(SyncDatesAgree /\ runs >= 1 /\ allOK /\ runs' = runs + 1) => calls' = <<>>]_vars
C2_WhereDatesAgree == (SyncDatesAgree /\ runs >= 1 /\ allOK) => Converged

\* C11: after a run of sync_violations_to_beeminder with an authority that
\* lists no violation, every call succeeding, the ledger holds no entry.
C11_EmptyAuthorityEmptiesLedger == (runs >= 1 /\ allOK /\ authority = {}) => ledger = {}

\* the entry point with a non-empty authority on a reconciler whose local
\* dates agree with the attributed dates leaves the ledger converged
C11_NonEmptyConverges ==
    (SyncDatesAgree /\ runs >= 1 /\ allOK /\ authority # {}) => Converged

\* ---- claims about the classifier and the day key -----------------------
\* C14: is_between_23_and_359_local is true exactly for the local hours 23,
\* 0, 1, 2 and 3, whatever the date, minute, second and microsecond.
C14_NightWindow ==
    (cls.done /\ cls.variant \in {"orig", "v3"})
        => (cls.is_night <=> cls.now.hour \in {23, 0, 1, 2, 3})

\* the last microsecond of hour 3 is classified night
C14_Witness ==
    /\ cls.done
    /\ cls.variant = "orig"
    /\ cls.is_night
    /\ cls.now = [date |-> 2, hour |-> 3, minute |-> 59, second |-> 59,
                  microsecond |-> 999999]

\* C15: in each of the three samplers the day key of a night sample is the
\* previous local day in hours 0-3 and the sample's own local day in hour 23.
C15_GuardKeyEveryVariant ==
    (cls.done /\ cls.is_night)
        => cls.ymd = IF cls.now.hour \in 0..3 THEN cls.now.date - 1 ELSE cls.now.date

\* the same for night_logger_github.py and night_logger_github_fixed_v3.py
C15_OrigAndV3 ==
    (cls.done /\ cls.is_night /\ cls.variant \in {"orig", "v3"})
        => cls.ymd = IF cls.now.hour \in 0..3 THEN cls.now.date - 1 ELSE cls.now.date

\* ---- claims about the orchestrator -------------------------------------
\* C16: after sync_hsot_to_sot the mirror's posted days are the snapshot's
\* and its (logged_at, is_night) list is the snapshot's, whatever the mirror
\* held before; a second run on the same snapshot runs no INSERT and no
\* DELETE on the mirror.
C16_MirrorReconcileExact ==
    /\ orch.runs >= 1 =>
          /\ get_posted_days_from_db(orch.sot) = get_posted_days_from_db(orch.hsot)
          /\ get_logs_from_db(orch.sot) = get_logs_from_db(orch.hsot)
    /\ orch.runs >= 2 => orch.ops = NoOps

\* two runs on a snapshot with one posted day and two rows; the mirror file
\* differs from the snapshot file (rowid order or posted_at) while its
\* listings equal the snapshot's
C16_Witness ==
    /\ orch.runs = 2
    /\ get_posted_days_from_db(orch.hsot) = {1}
    /\ Len(get_logs_from_db(orch.sot)) = 2
    /\ orch.sot # orch.hsot

\* C17: no step of run_sync writes upwards: the remote snapshot is never
\* written, the local snapshot file changes only in the pull and then holds
\* the remote snapshot, sync_hsot_to_sot leaves the snapshot as it was and
\* leaves in the mirror the snapshot's days and rows, and
\* sync_sot_to_beeminder leaves mirror and snapshot as they were.
C17_TierDirection ==
    [][/\ orch'.remote = orch.remote
       /\ (orch'.hsot # orch.hsot => (orch.stage = "pull" /\ orch'.hsot = orch.remote))
       /\ (orch.stage = "mirror" /\ orch'.stage = "ledger") =>
             /\ orch'.hsot = orch.hsot
             /\ get_posted_days_from_db(orch'.sot) = get_posted_days_from_db(orch.hsot)
             /\ get_logs_from_db(orch'.sot) = get_logs_from_db(orch.hsot)
       /\ orch.stage = "ledger" => (orch'.sot = orch.sot /\ orch'.hsot = orch.hsot)
      ]_vars

\* a run that pulled, rewrote the mirror and then changed the ledger, whose
\* night-logger days differed from the mirror's
C17_Witness ==
    /\ orch.stage = "done"
    /\ orch.pull = "ok"
    /\ orch.sot # orch.sot0
    /\ orch.calls # <<>>
    /\ orch.hsot = orch.remote

Ended == orch.stage \in {"done", "failed"}

\* C18: when a stage of run_sync failed no later stage ran and the exit
\* status is non-zero; when the snapshot is absent the mirror reconcile is
\* skipped, the mirror is as it was and the ledger reconcile ran.
C18_StageFailureAborts ==
    /\ (Ended /\ orch.fault # "none") =>
          /\ orch.exit # 0
          /\ orch.ran[Len(orch.ran)] = orch.fault
    /\ (Ended /\ orch.pull = "absent") =>
          /\ \A i \in DOMAIN orch.ran : orch.ran[i] # "mirror"
          /\ orch.sot = orch.sot0
          /\ \E i \in DOMAIN orch.ran : orch.ran[i] = "ledger"

\* the same for the stages whose errors reach run_sync's except clause
C18_RaisingStages ==
    /\ (Ended /\ orch.fault \in {"create", "mirror"}) =>
          /\ orch.exit # 0
          /\ orch.ran[Len(orch.ran)] = orch.fault
    /\ (Ended /\ orch.pull = "absent") =>
          /\ \A i \in DOMAIN orch.ran : orch.ran[i] # "mirror"
          /\ orch.sot = orch.sot0
          /\ \E i \in DOMAIN orch.ran : orch.ran[i] = "ledger"

NightLoggerOn(d) ==
    {e \in orch.ledger : IsNightLoggerComment(e.comment) /\ LocalDateOf(e.timestamp) = d}

\* C19: after a run of sync_sot_to_beeminder in which every call succeeded,
\* every posted day of the mirror has exactly one night-logger entry and no
\* other day has one; a second run issues no create and no delete call.
C19_OrchLedgerConverges ==
    /\ (orch.runs >= 1 /\ orch.ok) =>
          \A d \in Days \cup {LocalDateOf(e.timestamp) : e \in orch.ledger} :
              Cardinality(NightLoggerOn(d))
                  = IF d \in get_posted_days_from_db(orch.sot) THEN 1 ELSE 0
    /\ (orch.runs >= 2 /\ orch.ok) => orch.calls = <<>>

\* the same where no day of the initial ledger holds two night-logger entries
C19_WithoutDuplicates ==
    /\ (orch.runs >= 1 /\ orch.ok /\ ~orch.hadDup) =>
          \A d \in Days \cup {LocalDateOf(e.timestamp) : e \in orch.ledger} :
              Cardinality(NightLoggerOn(d))
                  = IF d \in get_posted_days_from_db(orch.sot) THEN 1 ELSE 0
    /\ (orch.runs >= 2 /\ orch.ok /\ ~orch.hadDup) => orch.calls = <<>>

\* ---- claims about the push to the remote branch ------------------------
\* C20: after every step the remote violations.json is the document of the
\* last successful push; a push that returned True leaves the branch in
\* existence; a write that follows a read which found the file carries the
\* sha of that read, and a write that replaces the file carries the sha the
\* file has; the step in which a push returns False leaves branch content
\* and sha as they were.
C20_PushOverwrites ==
    [][/\ gh'.doc = gh'.last
       /\ gh'.ret = "true" => gh'.branch
       /\ (gh'.put.sent /\ gh'.put.read.status = HttpOK)
             => (gh'.put.sha = gh'.put.read.sha /\ gh'.put.sha # 0)
       /\ (gh.step = "put" /\ gh'.ret = "true" /\ gh.doc # <<>>) => gh'.put.sha = gh.sha
       /\ (gh.step # "idle" /\ gh'.ret = "false")
             => (gh'.doc = gh.doc /\ gh'.sha = gh.sha)
      ]_vars

\* a push that replaced a document holding a date the new document lacks
C20_Witness ==
    /\ gh.ret = "true"
    /\ gh.step = "idle"
    /\ gh.put.read.status = HttpOK
    /\ gh.put.read.content = {1, 2}
    /\ gh.doc = <<{2}>>

\* a push into a repository without the branch returned True
C20_BranchCreated ==
    /\ gh.ret = "true"
    /\ gh.calls = 1
    /\ gh.branch

\* ---- claims about table posts ------------------------------------------
RowsOf(d) == {r \in guard.rows : r.ymd = d}

\* C13: after any sequence of mark_posted_today and already_posted_today
\* calls no call has raised an error, every day has at most one row, a day
\* has a row iff mark_posted_today was called for it, the row carries the
\* posted_at of the first call, and already_posted_today answered whether
\* the day had been marked when it was asked.
C13_PostedDayGuard ==
    /\ ~guard.error
    /\ \A d \in Days :
          /\ Cardinality(RowsOf(d)) <= 1
          /\ (RowsOf(d) # {}) <=> (d \in guard.marked)
          /\ \A r \in RowsOf(d) : r.posted_at_utc = guard.first[d]
    /\ guard.asked \in Days => (guard.answer <=> guard.wasMarked)

\* day 1 was marked twice, day 2 never; the last question was about day 1
C13_Witness ==
    /\ guard.marked = {1}
    /\ guard.now >= 3
    /\ guard.asked = 1
    /\ guard.answer

\* ---- claims about the list calls ---------------------------------------
Ceil(n, k) == (n + k - 1) \div k

AllEntries(n) == [i \in 1..n |-> i]

\* C12: get_goal_datapoints ends; when no list call failed it has returned
\* each of the n entries exactly once, in ceil(n / per_page) list calls.
C12_Pagination ==
    (pg.variant \in ApiVariants /\ pg.done /\ ~pg.failed)
        => (pg.got = AllEntries(pg.n) /\ pg.calls = Ceil(pg.n, PerPage))

\* what the two programs do: sync_violations.py lists until an empty page,
\* one call more than the pages that hold entries; sync_nightlogger.py stops
\* at a page shorter than per_page, which is the last page only when the
\* service fills its pages
C12_ViolationsVariant ==
    (pg.variant = "violations" /\ pg.done /\ ~pg.failed)
        => (pg.got = AllEntries(pg.n) /\ pg.calls = Ceil(pg.n, pg.cap) + 1)

C12_OrchestratorVariant ==
    (pg.variant = "orchestrator" /\ pg.cap = PerPage /\ pg.done /\ ~pg.failed)
        => (pg.got = AllEntries(pg.n) /\ pg.calls = pg.n \div PerPage + 1)

C12_Terminates == (pg.variant \in ApiVariants) ~> pg.done

\* ---- claims about the sampler -----------------------------------------
SyncPcs == {"marking", "upload", "trigger", "mark"}

\* C3: in the continuing sampler (v3), a process run that has completed the
\* upload and the trigger for night d has called upload exactly once and
\* trigger exactly once for d, however many night samples of d it logs.
C3_OncePerNight ==
    \A p \in Procs : \A d \in Days :
        (ver = "v3" /\ d \in procDone[p]) => (upCalls[p][d] = 1 /\ trigCalls[p][d] = 1)

\* the run that synced night 1 has since logged another night sample of
\* night 1 (a sample newer than the posted row)
C3_Witness ==
    /\ ver = "v3"
    /\ 1 \in procDone[1]
    /\ pc[1] = "loop"
    /\ \E i \in DOMAIN logs :
          /\ logs[i].is_night = 1
          /\ SampleKey(logs[i]) = 1
          /\ logs[i].logged_at > posts[1]

\* C4: for every night d the upload-and-trigger sequence is carried out
\* successfully at most once, whatever the interleaving of two samplers on
\* one store and wherever a sampler is stopped and started again.
C4_AtMostOncePerNight == \A d \in Days : totalDone[d] <= 1

\* C5: a PostedDay row for d exists only if an upload and a trigger for d
\* both succeeded earlier (a failed sync leaves d unposted).
C5_PostedOnlyAfterSuccess == \A d \in DOMAIN posts : totalDone[d] >= 1

\* the same for night_logger_github.py alone, which marks after the trigger
C5_OrigOnly == ver = "orig" => \A d \in DOMAIN posts : totalDone[d] >= 1

\* C6: the sampler never ends because a sync succeeded or because the night
\* was already posted; it goes on sampling.
C6_NoExitAfterSync ==
    \A p \in Procs : pc[p] = "exited" => exitWhy[p] \notin {"posted", "already"}

C6_V3Only ==
    ver = "v3" => \A p \in Procs : pc[p] = "exited" => exitWhy[p] \notin {"posted", "already"}

C7_OrigOnly ==
    \A d \in Days : (ver = "orig" /\ offset >= 0 /\ NightSampled(d)) ~> PostedAndPushed(d)

\* a night the fixed sampler marked without pushing stays so in every later
\* step of the sampler, however many samples follow: the guard skips the day
Stranded(d) ==
    /\ ver = "v3"
    /\ d \in DOMAIN posts
    /\ ~PushedWith(d)
    /\ ~(pc[1] \in {"marking", "upload"} /\ cur[1] = d)

C7_StrandedStays == [][\A d \in Days : Stranded(d) => Stranded(d)']_vars

C7_StrandedReached == \E d \in Days : Stranded(d) /\ NightSampled(d) /\ pc[1] = "loop"

\* C8: the day key main() computes for a night sample equals the violation
\* date extract_violations gives the stored sample, for every UTC offset.
C8_OneAttributionRule ==
    (logs # <<>> /\ logs[Len(logs)].is_night = 1)
        => violation_date(logs[Len(logs)].logged_at) = cur[1]

C8_NotBehindUTC ==
    (offset >= 0 /\ logs # <<>> /\ logs[Len(logs)].is_night = 1)
        => violation_date(logs[Len(logs)].logged_at) = cur[1]

\* ---- claims about the extractor ---------------------------------------
\* the attributed day in the claim's words: the date of logged_at, minus one
\* day when its hour is 0, 1, 2 or 3
ClaimedDay(logged_at) ==
    LET seconds == logged_at \div MillisPerSecond
        date == seconds \div SecondsPerDay
        hour == (seconds - date * SecondsPerDay) \div SecondsPerHour
    IN IF hour \in 0..3 THEN date - 1 ELSE date

NightRowsOn(d) == {i \in DOMAIN logs : logs[i].is_night = 1 /\ ClaimedDay(logs[i].logged_at) = d}

ViolationDays == {ClaimedDay(logs[i].logged_at) : i \in {j \in DOMAIN logs : logs[j].is_night = 1}}

Elements(q) == {q[i] : i \in DOMAIN q}

\* C9: night_logger_github.extract_violations returns exactly one violation
\* per attributed day that has a night sample and none for another day, each
\* with the number of night samples of its day and their least logged_at;
\* total_violations is the number of violations; unposted_violations is
\* exactly the violations whose date is not posted.
C9_ExtractorCorrect ==
    fn = "orig" =>
        LET r == result[1]
            vs == r.violations
        IN /\ \A i \in DOMAIN vs : \A j \in DOMAIN vs : i # j => vs[i].date # vs[j].date
           /\ {vs[i].date : i \in DOMAIN vs} = ViolationDays
           /\ \A i \in DOMAIN vs :
                 /\ vs[i].comment = Comment(Cardinality(NightRowsOn(vs[i].date)))
                 /\ \E k \in NightRowsOn(vs[i].date) : logs[k].logged_at = vs[i].timestamp
                 /\ \A k \in NightRowsOn(vs[i].date) : vs[i].timestamp <= logs[k].logged_at
           /\ r.total_violations = Cardinality(ViolationDays)
           /\ r.total_violations = Len(vs)
           /\ Elements(r.unposted_violations) = {v \in Elements(vs) : v.date \notin DOMAIN posts}
           /\ Len(r.unposted_violations)
                 = Cardinality({v \in Elements(vs) : v.date \notin DOMAIN posts})

\* two violation days, one of them posted, and a day with two night samples
\* one of which lies in hour 3
C9_Witness ==
    /\ fn = "orig"
    /\ Len(result[1].violations) = 2
    /\ Len(result[1].unposted_violations) = 1
    /\ \E i \in DOMAIN logs :
          /\ logs[i].is_night = 1
          /\ HourOf(logs[i].logged_at \div MillisPerSecond) = 3
    /\ \E i \in DOMAIN result[1].violations : result[1].violations[i].comment = Comment(2)

\* C10: the violations reported depend on the samples only: two stores with
\* equal samples and different posted tables get equal violations lists, and
\* a day with night samples that is not posted is reported as a violation and
\* listed in unposted_violations.
C10_SamplesAreAuthoritative ==
    fn # "none" =>
        /\ result[1].violations = altResult[1].violations
        /\ \A d \in ViolationDays \ DOMAIN posts :
              /\ \E i \in DOMAIN result[1].violations : result[1].violations[i].date = d
              /\ \E i \in DOMAIN result[1].unposted_violations :
                    result[1].unposted_violations[i].date = d

\* the same for night_logger_github.extract_violations alone
C10_OrigOnly ==
    fn = "orig" =>
        /\ result[1].violations = altResult[1].violations
        /\ \A d \in ViolationDays \ DOMAIN posts :
              /\ \E i \in DOMAIN result[1].violations : result[1].violations[i].date = d
              /\ \E i \in DOMAIN result[1].unposted_violations :
                    result[1].unposted_violations[i].date = d

\* C22: in each entry point missing credentials are a fatal error at startup,
\* before any sample is recorded and before any remote call is made. For the
\* sampler: started without the GitHub credentials it records no sample.
C22_CredentialsAtStartup == ~creds => logs = <<>>

\* the sampler without credentials makes no remote call and marks no day
C22_NoRemoteCallWithout ==
    ~creds => /\ \A p \in Procs : upCalls[p] = NoCalls /\ trigCalls[p] = NoCalls
              /\ remote = <<>>
              /\ posts = EmptyMap
              /\ bee.calls = <<>>

\* C23: a night sample of an unposted day without GitHub credentials ends
\* the sampler with status 2, no remote call made and no PostedDay row
\* written; an upload or trigger failure ends it with status 1; a keyboard
\* interrupt ends it with status 0.
C23_ExitCodes ==
    \A p \in Procs :
        pc[p] = "exited" =>
            /\ exitWhy[p] = "nocreds" =>
                    /\ ExitCode(exitWhy[p]) = 2
                    /\ upCalls[p] = NoCalls /\ trigCalls[p] = NoCalls
                    /\ cur[p] \notin DOMAIN posts
            /\ exitWhy[p] = "failed" => ExitCode(exitWhy[p]) = 1
            /\ exitWhy[p] \in {"interrupt", "interrupt_closed"} => ExitCode(exitWhy[p]) = 0

\* the same with the interrupts that arrive while the main connection is open
C23_OutsideSync ==
    \A p \in Procs :
        pc[p] = "exited" =>
            /\ exitWhy[p] = "nocreds" =>
                    /\ ExitCode(exitWhy[p]) = 2
                    /\ upCalls[p] = NoCalls /\ trigCalls[p] = NoCalls
                    /\ cur[p] \notin DOMAIN posts
            /\ exitWhy[p] = "failed" => ExitCode(exitWhy[p]) = 1
            /\ exitWhy[p] = "interrupt" => ExitCode(exitWhy[p]) = 0

\* C25: the sampling loop and the remote mirror push never issue a ledger
\* create or delete call.
C25_SingleLedgerWriter == bee.calls = <<>>

\* night_logger_github.py, whose push has no clean-up step
C25_OrigSampler == ver = "orig" => bee.calls = <<>>

DocumentFields == {"violations", "posted_dates", "total_violations", "unposted_violations"}

IsEmptyDocument(d) ==
    IF DocumentFields \subseteq DOMAIN d
    THEN /\ d.violations = <<>>
         /\ d.posted_dates = {}
         /\ d.total_violations = 0
         /\ d.unposted_violations = <<>>
    ELSE FALSE

\* C21: extract_violations called on a path that does not exist returns the
\* empty document: violations = [], posted_dates = [], total_violations = 0
\* and unposted_violations = [].
C21_MissingStore == (miss.done /\ ~miss.exists) => IsEmptyDocument(miss.doc[1])

\* the same for the two extractors of the samplers
C21_SamplerExtractors ==
    (miss.done /\ ~miss.exists /\ miss.variant \in {"orig", "v3"})
        => IsEmptyDocument(miss.doc[1])

\* every delete call of a run comes before its first create call
DeletesFirst(cs) ==
    \A i \in DOMAIN cs : \A j \in DOMAIN cs :
        (cs[i].op = "create" /\ cs[j].op = "delete") => j < i

Called(op, key) == \E i \in DOMAIN calls : calls[i] = [op |-> op, key |-> key]

KeysOf(op) ==
    LET cs == SelectSeq(calls, LAMBDA c : c.op = op)
    IN [i \in DOMAIN cs |-> cs[i].key]

\* one ledger entry per violation of the authority and nothing else
ExactlyAuthority ==
    /\ Cardinality(ledger) = Cardinality(authority)
    /\ \A v \in authority :
          \E e \in ledger : /\ e.timestamp = SotUnix(v.timestamp)
                            /\ e.value = v.value
                            /\ e.comment = v.comment

\* C24: nuclear_cleanup_and_sync issues a delete for every fetched entry and
\* then a create for every violation of the authority, every delete before
\* the first create; when all calls succeed the ledger ends with exactly one
\* entry per authority violation and nothing else; main() takes this path
\* when, and only when, --nuclear-cleanup is given.
C24_FullResync ==
    /\ (rec.path # "none" /\ rec.creds) => (rec.path = "nuclear" <=> rec.flag)
    /\ rec.path = "nuclear" =>
          /\ KeysOf("delete") = [i \in DOMAIN rec.listed |-> rec.listed[i].id]
          /\ Len(KeysOf("create")) = Cardinality(authority)
          /\ \A v \in authority : Called("create", v.date)
          /\ DeletesFirst(calls)
          /\ (allOK /\ ~rec.pageFailed) => ExactlyAuthority

\* a full resync of a ledger of two entries onto an authority of two
\* violations, every call succeeding
C24_Witness ==
    /\ rec.path = "nuclear"
    /\ allOK /\ ~rec.pageFailed
    /\ Len(rec.listed) = 2
    /\ Cardinality(authority) = 2
    /\ Len(calls) = 4

ListedOn(d) == {i \in DOMAIN rec.listed : LocalDateOf(rec.listed[i].timestamp) = d}

\* a is the entry the rule keeps of a and b: the later timestamp, and of two
\* with one timestamp the larger id
KeptOver(a, b) ==
    a.timestamp > b.timestamp \/ (a.timestamp = b.timestamp /\ a.id >= b.id)

\* C26: for every date on which the listing holds k > 1 entries, the run
\* marks k - 1 of them as duplicates and deletes them, and the entry it keeps
\* is the one with the latest timestamp, of equal timestamps the larger id.
C26_DedupRule ==
    rec.path = "selective" =>
        \A d \in DOMAIN rec.kept :
            Cardinality(ListedOn(d)) > 1 =>
                /\ Cardinality({i \in DOMAIN rec.dups :
                                    LocalDateOf(rec.dups[i].timestamp) = d})
                      = Cardinality(ListedOn(d)) - 1
                /\ \A i \in DOMAIN rec.dups : Called("delete", rec.dups[i].id)
                /\ \A i \in ListedOn(d) : KeptOver(rec.kept[d], rec.listed[i])

\* the same for the dates whose entries have different timestamps
C26_DistinctTimestamps ==
    rec.path = "selective" =>
        \A d \in DOMAIN rec.kept :
            (/\ Cardinality(ListedOn(d)) > 1
             /\ \A i \in ListedOn(d) : \A j \in ListedOn(d) :
                    i # j => rec.listed[i].timestamp # rec.listed[j].timestamp) =>
                /\ Cardinality({i \in DOMAIN rec.dups :
                                    LocalDateOf(rec.dups[i].timestamp) = d})
                      = Cardinality(ListedOn(d)) - 1
                /\ \A i \in DOMAIN rec.dups : Called("delete", rec.dups[i].id)
                /\ \A i \in ListedOn(d) : KeptOver(rec.kept[d], rec.listed[i])

\* C27: within one selective_sync_datapoints run every delete call is issued
\* before the first create call, whatever the plan.
C27_DeletesBeforeCreates == rec.path = "selective" => DeletesFirst(calls)

\* the same for the plans with at most one date to update
C27_AtMostOneUpdate ==
    (rec.path = "selective" /\ Cardinality(rec.plan.update) <= 1) => DeletesFirst(calls)

\* C28: a failed create or delete does not end the run: whatever set of
\* calls fails, every duplicate and every date to delete has its delete
\* attempted, every date to update its delete and, once that has succeeded,
\* its create, and every date to create its create.
C28_BestEffortBatch ==
    rec.path = "selective" =>
        /\ \A i \in DOMAIN rec.dups : Called("delete", rec.dups[i].id)
        /\ \A d \in rec.plan.delete : Called("delete", rec.by[d].id)
        /\ \A d \in rec.plan.update :
              /\ Called("delete", rec.by[d].id)
              /\ rec.by[d] \notin ledger => Called("create", d)
        /\ \A d \in rec.plan.create : Called("create", d)

\* a delete failed (its entry is still in the ledger) and the run went on
\* to the call of another date
C28_Witness ==
    /\ rec.path = "selective"
    /\ ~allOK
    /\ \E i \in DOMAIN calls : \E j \in DOMAIN calls :
          /\ i < j
          /\ calls[i].op = "delete"
          /\ \E e \in ledger : e.id = calls[i].key
          /\ calls[j].key # calls[i].key

\* C29: if a page fetch of get_goal_datapoints fails, the run issues no
\* create and no delete call.
C29_DiffOnlyAgainstFullListing ==
    (rec.path = "selective" /\ rec.pageFailed) => calls = <<>>

\* the run whose first listing lacks an entry the ledger held creates nothing
C29_IncompleteListing ==
    (rec.path = "selective" /\ Len(rec.listed) < rec.held) =>
        \A i \in DOMAIN calls : calls[i].op # "create"

\* C30: after any interleaving of two selective_sync_datapoints runs on one
\* authority, one further run on its own with every call succeeding leaves
\* exactly one ledger entry per authority date and no entry on another date.
C30_ConcurrentRunsHeal == cc.healed => Converged

\* the same for reconcilers whose local dates agree with the attributed dates
C30_WhereDatesAgree == (cc.healed /\ SyncDatesAgree) => Converged

\* both runs created an entry for one date, and the further run has run
C30_DuplicateHealed ==
    /\ cc.healed
    /\ SyncDatesAgree
    /\ \E i \in DOMAIN calls : calls[i].op = "delete" /\ calls[i].key > MaxLedger

\* the entry is the only one on its date, the date is an authority date and
\* the entry equals the authority's violation for it
SettledEntry(e) ==
    /\ EntriesOn(LocalDateOf(e.timestamp)) = {e}
    /\ \E v \in authority : v.date = LocalDateOf(e.timestamp) /\ Matches(e, v)

C31_NoSecondEntry ==
    [][\A e \in ledger :
          (rec'.path = "selective" /\ ~rec'.pageFailed /\ SettledEntry(e))
              => \A i \in DOMAIN calls' :
                    ~(calls'[i].op = "create" /\ calls'[i].key = LocalDateOf(e.timestamp))]_vars

\* the same without the condition on the listing
C31_NoSecondEntryAnyListing ==
    [][\A e \in ledger :
          (rec'.path = "selective" /\ SettledEntry(e))
              => \A i \in DOMAIN calls' :
                    ~(calls'[i].op = "create" /\ calls'[i].key = LocalDateOf(e.timestamp))]_vars

\* the sampler is between the decision to sync and the end of the sync
Syncing(p) == pc[p] \in {"marking", "upload", "trigger", "mark"}

\* C32: every sampler loop iteration appends exactly one sample whose
\* is_night is the classifier's result for the tick, before the posted-check
\* and the sync; no step changes or removes a stored sample and is_night is 0
\* or 1, so the sample count never decreases, and a sync for day d starts only
\* when a night sample for d is stored.
C32_AppendOnlySampling ==
    [][/\ Len(logs') >= Len(logs)
       /\ SubSeq(logs', 1, Len(logs)) = logs
       /\ \A i \in DOMAIN logs' : logs'[i].is_night \in {0, 1}
       /\ logs' # logs =>
             /\ Len(logs') = Len(logs) + 1
             /\ logs'[Len(logs')].is_night =
                    (IF is_between_23_and_359_local(clock) THEN 1 ELSE 0)
       /\ \A p \in Procs :
             /\ (pc[p] = "loop" /\ (Syncing(p)' \/ exitWhy'[p] \in {"already", "nocreds"}))
                    => Len(logs') = Len(logs) + 1
             /\ Syncing(p)' =>
                    \E i \in DOMAIN logs' :
                        /\ logs'[i].is_night = 1
                        /\ DayKey(logs'[i].logged_at \div MillisPerSecond
                                  + offset * SecondsPerHour) = cur'[p]]_vars

\* a sync has started with a day sample and a night sample in the store
C32_Witness ==
    /\ Syncing(1)
    /\ NightSampled(cur[1])
    /\ \E i \in DOMAIN logs : logs[i].is_night = 0

\* C33: extract_violations computed over its temporary copy of the store
\* equals the result computed over the live store at the moment of the copy,
\* also while the sampler holds the store open in WAL mode with committed
\* samples that no checkpoint has moved to the database file.
C33_LiveVersusCopy == wal.variant # "none" => wal.copy = wal.direct

\* the same with no connection open at the moment of the copy
C33_StoreClosed == (wal.variant # "none" /\ ~wal.open) => wal.copy = wal.direct

\* an extraction from a closed store that holds a posted night
C33_ClosedWitness ==
    /\ wal.variant # "none"
    /\ ~wal.open
    /\ wal.copy[1].violations # <<>>

\* C34: on an interrupt at any point of the sampler loop, also in the middle
\* of a sync after the main connection was closed, the sampler closes its
\* storage handle without raising and exits cleanly (status 0), and the day
\* whose sync was in flight is left unposted.
C34_InterruptHandling ==
    \A p \in Procs :
        /\ exitWhy[p] \in {"interrupt", "interrupt_closed"} => ExitCode(exitWhy[p]) = 0
        /\ exitWhy[p] = "interrupt_closed" => ~already_posted_today(posts, cur[p])

\* the original sampler, which marks the day after the trigger, leaves the
\* day of an interrupted sync unposted
C34_OrigLeavesUnposted ==
    \A p \in Procs :
        (ver = "orig" /\ exitWhy[p] = "interrupt_closed") => ~already_posted_today(posts, cur[p])

\* an interrupt while the sampler sleeps or samples ends it with status 0
C34_InterruptInLoop ==
    \A p \in Procs : exitWhy[p] = "interrupt" => ExitCode(exitWhy[p]) = 0

\* the days of the violations derived from a database's samples: the
\* attributed days with at least one night sample
DerivedDays(db) ==
    LET rows == get_logs_from_db(db)
    IN {violation_date(rows[i].logged_at) : i \in {j \in DOMAIN rows : rows[j].is_night = 1}}

\* the days on which the ledger holds a night-logger entry
LedgerDays == {LocalDateOf(e.timestamp) : e \in {x \in orch.ledger : IsNightLoggerComment(x.comment)}}

\* C35: the days the orchestrator's ledger reconcile enforces on the ledger
\* are the days of the violations derived from the mirror's samples, for
\* every mirror content, also for a mirror with night samples on a day that
\* has no posted-day row: after a run of sync_sot_to_beeminder with every
\* call succeeding the ledger holds a night-logger entry on exactly those days.
C35_OrchestratorAuthority ==
    (orch.stage = "done" /\ orch.ok) => LedgerDays = DerivedDays(orch.sot)

\* what the reconcile enforces are the mirror's posted days (first run, on a
\* ledger that held no two night-logger entries on one day)
C35_PostedDaysEnforced ==
    (orch.stage = "done" /\ orch.ok /\ orch.runs = 1 /\ ~orch.hadDup)
        => LedgerDays = get_posted_days_from_db(orch.sot)

\* a run on a mirror with a night sample on an unposted day
C35_UnpostedNight ==
    /\ orch.stage = "done"
    /\ orch.ok
    /\ DerivedDays(orch.sot) \ get_posted_days_from_db(orch.sot) # {}

\* C36: every document uploaded by the sync the sampler triggers for night d
\* contains a violation dated d, whatever the local hour (23 or 0-3) of the
\* first night sample of d and whatever the UTC offset of the local clock.
C36_DocumentContainsNight == \A u \in pushes : u[1] \in u[2]

\* the same on a machine whose local clock is UTC
C36_AtUTC == offset = 0 => \A u \in pushes : u[1] \in u[2]

\* an upload at UTC for a night first sampled after midnight
C36_AfterMidnightAtUTC ==
    /\ offset = 0
    /\ \E u \in pushes : u[1] \in u[2]
    /\ logs # <<>>
    /\ HourOf(local_time(logs[1].logged_at)) <= 3
    /\ logs[1].is_night = 1

\* C37: in sync_hsot_to_sot the posted-day insertions and deletions and the
\* replacement of the samples become visible in the mirror together, at the
\* one commit: until the commit, and after a failure part-way, the mirror
\* holds what it held before the run, and the commit leaves in it the result
\* of the whole reconcile.
C37_MirrorAllOrNothing ==
    /\ txn.step \in {"running", "failed"} => txn.conn.committed = txn.before
    /\ txn.step = "done" =>
          <<txn.conn.committed>> = sync_hsot_to_sot(<<txn.snapshot>>, <<txn.before>>).sot

\* a run that failed at the INSERT of the samples, after posted days were
\* changed and the mirror's samples deleted inside the transaction
C37_Witness ==
    /\ txn.step = "failed"
    /\ txn.at = "insert_logs"
    /\ txn.before.logs # <<>>
    /\ DOMAIN txn.before.posts # DOMAIN txn.snapshot.posts

\* the entries a listing of the ledger shows sync_sot_to_beeminder as the
\* night logger's, by local date
Recognised(L) == NightLoggerByDate(Listing(L, FALSE), EmptyMap)

\* C38: sync_sot_to_beeminder never deletes a ledger entry whose comment
\* contains neither 'night_logger' nor 'auto-logged'; every entry it creates
\* carries such a comment, a timestamp whose local calendar day is the
\* authority day and the request id of that day, so that its own next run
\* finds the day present (and, every call succeeding, creates nothing for it).
C38_ForeignEntriesLeftAlone ==
    [][/\ \A e \in orch.ledger : ~IsNightLoggerComment(e.comment) => e \in orch'.ledger
       /\ \A e \in orch'.ledger \ orch.ledger :
             /\ IsNightLoggerComment(e.comment)
             /\ e.requestid \in get_posted_days_from_db(orch.sot)
             /\ LocalDateOf(e.timestamp) = e.requestid
             /\ e.requestid \in DOMAIN Recognised(orch'.ledger)
       /\ (orch'.runs = orch.runs + 1 /\ orch'.ok) =>
             \A e \in orch.ledger :
                 (IsNightLoggerComment(e.comment) /\ e.requestid # 0) =>
                     \A i \in DOMAIN orch'.calls :
                        ~(orch'.calls[i].op = "create"
                          /\ orch'.calls[i].key = LocalDateOf(e.timestamp))
      ]_vars

\* west of UTC: a second run, every call succeeding, on a ledger that holds a
\* foreign entry and an entry the first run created
C38_Witness ==
    /\ tz < 0
    /\ orch.runs = 2
    /\ orch.ok
    /\ \E e \in orch.ledger : ~IsNightLoggerComment(e.comment)
    /\ \E e \in orch.ledger : e.id > MaxLedger /\ e.requestid # 0

====
